---- MODULE Spec2Model ----
(***************************************************************************)
(* The STS Arena acceptance harness: the protocol coordinator of           *)
(* acceptance_tests/conftest.py (cached state, wait helpers, main-menu     *)
(* recovery) and the rule-based state machines of                          *)
(* acceptance_tests/test_hypothesis_stateful.py, driving a game process    *)
(* that answers command lines with JSON state lines.                       *)
(*                                                                         *)
(* The control thread of the harness is modelled as a stack of pending     *)
(* statements (todo); every helper and rule of the source is the sequence  *)
(* of its statements, in source order.  The game is the environment: it    *)
(* consumes the command lines and queues its answer lines.                 *)
(***************************************************************************)
EXTENDS Integers, Sequences, FiniteSets, TLC

\* ------------------------------------------------------------------ bounds
\* rules executed in one run (stateful_step_count is 8 in the source)
MaxSteps == 2
\* lines the inbound queue holds before the game has to wait for the reader
MaxQueue == 1
\* wait_for_ready calls of one run whose time budget runs out
MaxTimeouts == 1
\* wait_for_ready calls of one main-menu recovery whose budget runs out
MaxRecoveryTimeouts == 3
\* lines queued when drain_pending_messages is called
MaxBacklog == 2
\* the largest max_drain drain_pending_messages is called with
MaxDrain == 2
\* clock ticks in one second
Sec == 2
\* the largest timeout, in ticks, a wait loop is called with
MaxBudget == 3
\* the most actions a run records in its trace
MaxActions == 1001
\* calls of initialize_communicator in one process
MaxInits == 3
\* commands the exploratory agent sends
MaxCommands == 2

\* ------------------------------------------------------------ value domains
\* Python's None for optional strings
None == "None"

\* test_hypothesis_stateful.py:74, one of the four characters
CHARACTERS == {"IRONCLAD"}
\* test_hypothesis_stateful.py:77, one of the nine encounters
ENCOUNTERS == {"Cultist"}
\* st.integers(0, 2**63-1), one seed
SEEDS == {"0"}

\* test_hypothesis_stateful.py:61: of the nine forbidden screens the model
\* keeps COMBAT_REWARD and MAP
FORBIDDEN_ARENA_SCREENS == {"COMBAT_REWARD", "MAP"}

\* coordinator.last_game_state before any in-game line was parsed
NoGame ==
    [present |-> FALSE, in_combat |-> FALSE, screen_type |-> "NONE",
     proceed_available |-> FALSE]

\* the game_state payloads the game reports while a run is active
GameStates ==
    { [present |-> TRUE, in_combat |-> TRUE, screen_type |-> "NONE",
       proceed_available |-> FALSE],
      [present |-> TRUE, in_combat |-> FALSE, screen_type |-> "NONE",
       proceed_available |-> FALSE],
      [present |-> TRUE, in_combat |-> FALSE, screen_type |-> "COMBAT_REWARD",
       proceed_available |-> TRUE] }

InvalidCommand == "Invalid command"
StabilityError == "Timed out waiting for visual stability"
WaitForTimedOut == "Timed out waiting for condition"

\* an inbound line that is not JSON
NotJSON == [text |-> "not JSON"]

\* json.loads(msg) returns: the line is JSON
IsJSON(msg) == "text" \notin DOMAIN msg

\* one inbound JSON line
Line(ready, err, msg, ingame, gs) ==
    [ready_for_command |-> ready, error |-> err, message |-> msg,
     in_game |-> ingame, game_state |-> gs]

VARIABLES
    coord,           \* the coordinator's cached state
    inq,             \* inbound lines read by the reader, not yet processed
    outq,            \* command lines written, not yet consumed by the game
    game,            \* the driven system: in_game and a pending transition
    model,           \* the state machine's model fields
    action_history,  \* ArenaStateMachine.action_history
    todo,            \* pending statements of the control thread
    phase,           \* "setup", "rules", "teardown", "done"
    steps,           \* rules started in this run
    failure,         \* the exception that ended setup or a rule, or None
    reported,        \* the exception that leaves the run, or None
    SCREENSHOTS_ENABLED, \* conftest.SCREENSHOTS_ENABLED of this process
    run_tracker,     \* ScreenshotStateMixin._run_tracker is set
    timeouts,        \* wait_for_ready budgets that ran out so far
    obs,             \* observations of the run kept for the properties
    twin,            \* a second run of the same rules against another
                     \* game: its coord, model, todo and failure
    comm,            \* run_agent.py: the GameCommunicator's fields
    results,         \* run_agent.py: TestRunner.results
    exit_code,       \* run_agent.py: the exit code of the process
    pc,              \* the statement a thread outside the rule engine is at
    now,             \* time.time(), in ticks
    start            \* the start a wait loop took from time.time()

\* the variables of the harness process and of the timed wait loops
aside == <<comm, results, exit_code, pc, now, start>>

vars ==
    <<coord, inq, outq, game, model, action_history, todo, phase, steps,
      failure, reported, SCREENSHOTS_ENABLED, run_tracker, timeouts, obs,
      twin, aside>>

\* ------------------------------------------------- conftest.py: coordinator

\* "visual stability" in coordinator.last_error.lower()
IsVisualStabilityError(e) == e = StabilityError

\* a _process_message that parses the game state only while none is cached
process_message_first_game_state(c, msg) ==
    LET c1 == [c EXCEPT !.last_error = msg.error,
                        !.game_is_ready = msg.ready_for_command]
    IN  IF msg.error = None
          THEN [c1 EXCEPT !.in_game = msg.in_game,
                          !.last_game_state =
                              IF msg.in_game /\ ~@.present
                                THEN msg.game_state ELSE @]
          ELSE c1

\* a _process_message that replaces every cached field by the line's
process_message_wholesale(c, msg) ==
    [game_is_ready |-> msg.ready_for_command, in_game |-> msg.in_game,
     last_error |-> msg.error, last_message |-> msg.message,
     last_game_state |-> msg.game_state]

\* a _process_message that overwrites last_error only with an error, the
\* way it treats the message
process_message_sticky_error(c, msg) ==
    LET c1 == IF msg.error # None
                THEN [c EXCEPT !.last_error = msg.error]
                ELSE c
        c2 == IF msg.message # None
                THEN [c1 EXCEPT !.last_message = msg.message]
                ELSE c1
        c3 == [c2 EXCEPT !.game_is_ready = msg.ready_for_command]
    IN  IF c3.last_error = None
          THEN LET c4 == [c3 EXCEPT !.in_game = msg.in_game]
               IN  IF c4.in_game
                     THEN [c4 EXCEPT !.last_game_state = msg.game_state]
                     ELSE c4
          ELSE c3

\* conftest._process_message
process_message(c, msg) ==
    LET c1 == [c EXCEPT !.last_error = msg.error]
        c2 == IF msg.message # None
                THEN [c1 EXCEPT !.last_message = msg.message]
                ELSE c1
        c3 == [c2 EXCEPT !.game_is_ready = msg.ready_for_command]
    IN  IF c3.last_error = None
          THEN LET c4 == [c3 EXCEPT !.in_game = msg.in_game]
               IN  IF c4.in_game
                     THEN [c4 EXCEPT !.last_game_state = msg.game_state]
                     ELSE c4
          ELSE c3

\* a send_message that writes the line and leaves the ready flag alone
send_message_keeps_flag(c) == c

\* GameCommunicator.send_command / Coordinator.send_message: the line is
\* written, then the ready flag is cleared
send_message(c) == [c EXCEPT !.game_is_ready = FALSE]

\* -------------------------------------------------------------- statements
Send(cmd) == [op |-> "send", cmd |-> cmd]
ResetReady == [op |-> "reset_ready"]
ClearError == [op |-> "clear_error"]
WaitReady == [op |-> "wait_for_ready"]
Drain(n) == [op |-> "drain", max_drain |-> n]
RaiseUnless(c, exc) ==
    [op |-> "raise_unless", cond |-> c, exc |-> exc, note |-> None]
\* the last check of a helper: passing it is the helper's normal return
ReturnUnless(c, exc, what) ==
    [op |-> "raise_unless", cond |-> c, exc |-> exc, note |-> what]
If(c, a, b) == [op |-> "if", cond |-> c, then |-> a, else |-> b]
Try(body, exc, handler) ==
    body \o <<[op |-> "except", exc |-> exc, handler |-> handler]>>
SetModel(upd) == [op |-> "model", upd |-> upd]
Log(entry) == [op |-> "log", entry |-> entry]
Invariants == [op |-> "invariants"]
Note(what) == [op |-> "note", what |-> what]
StartTracker == [op |-> "start_run"]
Reraise(exc) == [op |-> "raise", exc |-> exc]

\* the conditions the statements test, on a cached state c, a model m and
\* the tracker flag rt
HoldsIn(cond, c, m, rt) ==
    CASE cond = "in_game" -> c.in_game
      [] cond = "not in_game" -> ~c.in_game
      [] cond = "in_combat" ->
            c.in_game /\ c.last_game_state.present
            /\ c.last_game_state.in_combat
      [] cond = "game in_combat" ->
            c.last_game_state.present /\ c.last_game_state.in_combat
      [] cond = "game not in_combat" ->
            c.last_game_state.present /\ ~c.last_game_state.in_combat
      [] cond = "proceed_available" ->
            c.last_game_state.present /\ c.last_game_state.proceed_available
      [] cond = "no stability error" ->
            ~(c.last_error # None /\ IsVisualStabilityError(c.last_error))
      [] cond = "model_is_arena" -> m.model_is_arena
      [] cond = "run_tracker" -> rt

Holds(cond) == HoldsIn(cond, coord, model, run_tracker)

\* conftest.wait_for_state_update
wait_for_state_update ==
    <<ResetReady, Send(<<"state">>), WaitReady>>

\* a wait_for_in_game that returns whatever the answer reports
wait_for_in_game_unverified ==
    <<ResetReady, Send(<<"wait_for", "in_game", "true">>), WaitReady>>

\* conftest.wait_for_in_game
wait_for_in_game ==
    <<ResetReady, Send(<<"wait_for", "in_game", "true">>), WaitReady,
      ReturnUnless("in_game", "GameTimeout", "wait_for_in_game returned")>>

\* a wait_for_visual_stable that never inspects last_error
wait_for_visual_stable_unchecked ==
    <<ResetReady, ClearError, Send(<<"wait_for", "visual_stable">>),
      WaitReady, Note("wait_for_visual_stable returned")>>

\* conftest.wait_for_visual_stable
wait_for_visual_stable ==
    <<ResetReady, ClearError, Send(<<"wait_for", "visual_stable">>),
      WaitReady,
      ReturnUnless("no stability error", "VisualStabilityTimeout",
                   "wait_for_visual_stable returned")>>

\* conftest.wait_for_main_menu
wait_for_main_menu ==
    <<ResetReady, Send(<<"wait_for", "main_menu">>), WaitReady>>
    \o wait_for_visual_stable
    \o <<ReturnUnless("not in_game", "GameTimeout",
                      "wait_for_main_menu returned")>>

\* conftest.wait_for_combat
wait_for_combat ==
    <<ResetReady, Send(<<"wait_for", "in_combat", "true">>), WaitReady,
      ReturnUnless("in_combat", "GameTimeout", "wait_for_combat returned")>>

\* test_hypothesis_stateful.wait_for_arena_end
wait_for_arena_end == wait_for_main_menu

\* test_hypothesis_stateful.ensure_main_menu
ensure_main_menu ==
    <<Note("ensure_main_menu called"), ResetReady, ClearError,
      Drain(10), Drain(10)>>
    \o Try(wait_for_state_update, "GameTimeout",
           <<Drain(10)>> \o wait_for_state_update)
    \o <<If("not in_game",
            <<Note("ensure_main_menu returned")>>,
            <<Send(<<"abandon">>), WaitReady>>
            \o wait_for_main_menu
            \o <<RaiseUnless("not in_game", "AssertionError"),
                 Note("ensure_main_menu returned")>>)>>

\* a _ensure_main_menu that retries once more
max_retries_raised == 2 + 1

\* conftest._ensure_main_menu, default of its parameter max_retries
max_retries == 2

\* conftest._ensure_main_menu: the body of the for loop from `attempt` on;
\* the except clause of an attempt holds the attempts that follow it
RECURSIVE ensure_main_menu_attempts(_)
ensure_main_menu_attempts(attempt) ==
    Try(<<Note("attempt"), ResetReady, ClearError,
          Drain(IF attempt = 0 THEN 10 ELSE 50),
          Drain(IF attempt = 0 THEN 10 ELSE 50)>>
        \o wait_for_state_update
        \o <<If("not in_game",
                <<Note("_ensure_main_menu returned")>>,
                <<Send(<<"abandon">>), WaitReady>>
                \o wait_for_main_menu
                \o <<RaiseUnless("not in_game", "AssertionError"),
                     Note("_ensure_main_menu returned")>>)>>,
        "GameTimeout",
        IF attempt < max_retries
          THEN <<Note("retrying"), Drain(100)>>
               \o ensure_main_menu_attempts(attempt + 1)
          ELSE <<Reraise("GameTimeout")>>)

\* conftest._ensure_main_menu
conftest_ensure_main_menu ==
    <<Note("_ensure_main_menu called")>> \o ensure_main_menu_attempts(0)

\* ScreenshotStateMixin._screenshot_setup: the tracker is set when
\* screenshots are enabled, and then the setup waits for visual stability
screenshot_setup ==
    <<StartTracker, If("run_tracker", wait_for_visual_stable, <<>>)>>

\* ScreenshotStateMixin._screenshot_step (the capture touches no modelled
\* state)
screenshot_step == <<If("run_tracker", wait_for_visual_stable, <<>>)>>

\* ScreenshotStateMixin._screenshot_teardown
screenshot_teardown == <<If("run_tracker", wait_for_visual_stable, <<>>)>>

\* ------------------------------ test_hypothesis_stateful.ArenaStateMachine

\* ArenaStateMachine.__init__
InitialModel ==
    [model_in_game |-> FALSE, model_is_arena |-> FALSE,
     model_character |-> None, model_encounter |-> None,
     model_in_combat |-> FALSE, model_combat_ended |-> FALSE]

\* ArenaStateMachine.setup
setup ==
    ensure_main_menu
    \o <<SetModel(InitialModel),
         RaiseUnless("not in_game", "AssertionError")>>
    \o screenshot_setup

\* ArenaStateMachine.start_arena_fight
start_arena_fight(character, encounter, seed) ==
    <<Log(<<"arena", character, encounter, seed>>),
      Send(<<"arena", character, encounter, seed>>), WaitReady>>
    \o wait_for_in_game
    \o wait_for_combat
    \o <<SetModel([model_in_game |-> TRUE, model_is_arena |-> TRUE,
                   model_character |-> character,
                   model_encounter |-> encounter,
                   model_in_combat |-> TRUE, model_combat_ended |-> FALSE])>>
    \o screenshot_step

\* a start_normal_run that records the run as being in combat
start_normal_run_in_combat(character) ==
    <<Log(<<"start", character>>),
      Send(<<"start", character, "0">>), WaitReady>>
    \o wait_for_in_game
    \o <<SetModel([model_in_game |-> TRUE, model_is_arena |-> FALSE,
                   model_character |-> character, model_encounter |-> None,
                   model_in_combat |-> TRUE, model_combat_ended |-> FALSE])>>
    \o screenshot_step

\* ArenaStateMachine.start_normal_run
start_normal_run(character) ==
    <<Log(<<"start", character>>),
      Send(<<"start", character, "0">>), WaitReady>>
    \o wait_for_in_game
    \o <<SetModel([model_in_game |-> TRUE, model_is_arena |-> FALSE,
                   model_character |-> character, model_encounter |-> None,
                   model_in_combat |-> FALSE, model_combat_ended |-> FALSE])>>
    \o screenshot_step

\* an abandon_run that forgets to clear model_is_arena
abandon_run_keeps_arena ==
    <<Log(<<"abandon">>), Send(<<"abandon">>), WaitReady>>
    \o wait_for_main_menu
    \o <<SetModel([model_in_game |-> FALSE, model_character |-> None,
                   model_encounter |-> None, model_in_combat |-> FALSE,
                   model_combat_ended |-> FALSE])>>
    \o screenshot_step

\* ArenaStateMachine.abandon_run
abandon_run ==
    <<Log(<<"abandon">>), Send(<<"abandon">>), WaitReady>>
    \o wait_for_main_menu
    \o <<SetModel(InitialModel)>>
    \o screenshot_step

\* the common body of win_combat and lose_combat, which differ in the verb
combat_outcome(verb) ==
    wait_for_state_update
    \o <<If("game in_combat",
            <<Log(<<verb>>), Send(<<verb>>), WaitReady,
              If("model_is_arena",
                 wait_for_arena_end
                 \o <<SetModel([model_in_game |-> FALSE,
                                model_in_combat |-> FALSE,
                                model_combat_ended |-> FALSE])>>
                 \o screenshot_step,
                 wait_for_state_update
                 \o <<If("not in_game",
                         <<SetModel([model_in_game |-> FALSE,
                                     model_in_combat |-> FALSE,
                                     model_combat_ended |-> FALSE])>>,
                         <<If("game not in_combat",
                              <<SetModel([model_in_combat |-> FALSE,
                                          model_combat_ended |-> TRUE])>>,
                              <<>>)>>)>>
                 \o screenshot_step)>>,
            <<SetModel([model_in_combat |-> FALSE])>> \o screenshot_step)>>

\* ArenaStateMachine.win_combat
win_combat == combat_outcome("win")

\* ArenaStateMachine.lose_combat
lose_combat == combat_outcome("lose")

\* ArenaStateMachine.proceed_after_combat
proceed_after_combat ==
    <<If("model_is_arena",
         wait_for_state_update
         \o <<If("not in_game",
                 <<SetModel([model_in_game |-> FALSE,
                             model_combat_ended |-> FALSE])>>,
                 <<>>)>>
         \o screenshot_step,
         wait_for_state_update
         \o <<If("not in_game",
                 <<SetModel([model_in_game |-> FALSE])>> \o screenshot_step,
                 <<If("proceed_available",
                      <<Log(<<"proceed">>), Send(<<"proceed">>)>>
                      \o wait_for_state_update
                      \o <<SetModel([model_combat_ended |-> FALSE])>>,
                      <<>>)>>
                 \o screenshot_step)>>)>>

\* ArenaStateMachine.teardown
teardown == screenshot_teardown \o ensure_main_menu

\* the rules with their arguments
Rules ==
    { [name |-> "start_arena_fight", character |-> ch, encounter |-> e,
       seed |-> sd] : ch \in CHARACTERS, e \in ENCOUNTERS, sd \in SEEDS }
    \cup { [name |-> "start_normal_run", character |-> ch] :
             ch \in CHARACTERS }
    \cup { [name |-> n] :
             n \in {"abandon_run", "win_combat", "lose_combat",
                    "proceed_after_combat"} }

\* an engine that selects any rule in any model state
precondition_unchecked(r, m) == TRUE

\* the @precondition of each rule
Precondition(r, m) ==
    CASE r.name \in {"start_arena_fight", "start_normal_run"} ->
            ~m.model_in_game
      [] r.name = "abandon_run" -> m.model_in_game
      [] r.name \in {"win_combat", "lose_combat"} ->
            m.model_in_game /\ m.model_in_combat
      [] r.name = "proceed_after_combat" ->
            m.model_in_game /\ m.model_combat_ended

\* the statements of each rule
Body(r) ==
    CASE r.name = "start_arena_fight" ->
            start_arena_fight(r.character, r.encounter, r.seed)
      [] r.name = "start_normal_run" -> start_normal_run(r.character)
      [] r.name = "abandon_run" -> abandon_run
      [] r.name = "win_combat" -> win_combat
      [] r.name = "lose_combat" -> lose_combat
      [] r.name = "proceed_after_combat" -> proceed_after_combat

\* ------------------------------------------------------------ observations
\* what the properties need to know about the run beside its state
InitialObs ==
    [ready_since_send |-> TRUE,   \* a ready line was processed since the
                                  \* last send_message
     saw_in_game |-> FALSE,       \* a line of this rule reported in_game
     forbidden_seen |-> FALSE,    \* a line of this rule reported a forbidden
                                  \* screen while model_is_arena was set
     teardown_ensure |-> FALSE,   \* teardown has called ensure_main_menu
     last_sent |-> <<>>,          \* the last command send_message wrote
     attempts |-> 0,              \* attempts the running _ensure_main_menu
                                  \* has begun
     retries |-> 0,               \* GameTimeouts it has caught to retry
     state_requests |-> 0,        \* `state` commands a recovery called on
                                  \* its own has sent
     events |-> {}]               \* what the last step of the thread did,
                                  \* until the game acts

\* the observations after one inbound line is processed
ObsLine(o, msg, m) ==
    [o EXCEPT
       !.ready_since_send = @ \/ msg.ready_for_command,
       !.saw_in_game = @ \/ (msg.error = None /\ msg.in_game),
       !.forbidden_seen =
           @ \/ (m.model_is_arena /\ msg.error = None /\ msg.in_game
                 /\ msg.game_state.screen_type \in FORBIDDEN_ARENA_SCREENS)]

\* ------------------------------------------------------ the control thread
\* The thread's own state, as one record h: coord, outq, model,
\* action_history, todo, phase, failure, reported, run_tracker, obs.
\* The run loop around the rules is Hypothesis's: setup, then rules with the
\* invariants checked after each, then teardown in a finally clause.

Here ==
    [coord |-> coord, outq |-> outq, model |-> model,
     action_history |-> action_history, todo |-> todo, phase |-> phase,
     failure |-> failure, reported |-> reported,
     run_tracker |-> run_tracker, obs |-> obs]

\* the step of the thread recorded `what` happened, with the state then
Event(h, what) ==
    [h EXCEPT !.obs.events =
        @ \cup {[what |-> what, coord |-> h.coord, model |-> h.model,
                 phase |-> h.phase, saw_in_game |-> h.obs.saw_in_game,
                 ready_since_send |-> h.obs.ready_since_send,
                 forbidden_seen |-> h.obs.forbidden_seen,
                 last_sent |-> h.obs.last_sent,
                 game_in_game |-> game.in_game]}]

\* index of the innermost handler for exc among the pending statements
RECURSIVE HandlerFrom(_, _, _)
HandlerFrom(t, exc, i) ==
    IF i > Len(t) THEN 0
    ELSE IF t[i].op = "except" /\ t[i].exc = exc THEN i
    ELSE HandlerFrom(t, exc, i + 1)

\* a raise that is swallowed: the statements after it run on
raise_swallowed(h, exc) == h

\* raise exc: control goes to the innermost handler; an exception no
\* handler takes ends setup or the rule, and the finally clause runs
\* teardown; raised in teardown, it is the exception that leaves the run
Raise(h, exc) ==
    LET i == HandlerFrom(h.todo, exc, 1)
    IN  IF i > 0
          THEN [h EXCEPT !.todo = h.todo[i].handler
                                   \o SubSeq(h.todo, i + 1, Len(h.todo))]
          ELSE IF h.phase \in {"setup", "rules"}
            THEN [Event(h, "run failed") EXCEPT
                    !.failure = exc, !.phase = "teardown",
                    !.todo = teardown, !.obs.saw_in_game = FALSE,
                    !.obs.forbidden_seen = FALSE]
            ELSE [h EXCEPT !.reported = exc, !.phase = "done",
                           !.todo = <<>>]

\* the assignments to the model fields
ApplyModel(m, upd) ==
    [f \in DOMAIN m |-> IF f \in DOMAIN upd THEN upd[f] ELSE m[f]]

\* ArenaStateMachine.game_state_consistency
game_state_consistency(c, m) == c.in_game => c.last_game_state.present

\* a model_matches_reality that asserts nothing
model_matches_reality_unasserted(c, m) == TRUE

\* ArenaStateMachine.model_matches_reality
model_matches_reality(c, m) == m.model_in_game = c.in_game

\* ArenaStateMachine.arena_no_forbidden_screens
arena_no_forbidden_screens(c, m) ==
    (m.model_is_arena /\ c.in_game /\ c.last_game_state.present)
        => c.last_game_state.screen_type \notin FORBIDDEN_ARENA_SCREENS

\* the invariants hold, checked in the order of the class
check_invariants(c, m) ==
    /\ game_state_consistency(c, m)
    /\ model_matches_reality(c, m)
    /\ arena_no_forbidden_screens(c, m)

\* the notes that a main-menu recovery writes when it is called and when
\* it returns
RecoveryBounds ==
    {"ensure_main_menu called", "ensure_main_menu returned",
     "_ensure_main_menu called", "_ensure_main_menu returned"}

\* the statements that wait for the reader's queue
Waits(h) ==
    \/ Head(h.todo).op = "drain"
    \/ Head(h.todo).op = "wait_for_ready" /\ ~h.coord.game_is_ready

\* one statement st that does not wait, executed on h (st already popped)
Exec(h, st) ==
    CASE st.op = "reset_ready" -> [h EXCEPT !.coord.game_is_ready = FALSE]
      [] st.op = "clear_error" -> [h EXCEPT !.coord.last_error = None]
      [] st.op = "send" ->
            LET e == IF h.phase = "rules"
                        /\ (h.outq # <<>> \/ ~h.obs.ready_since_send)
                       THEN Event(h, "sent before answer")
                       ELSE h
            IN  Event([e EXCEPT !.outq = Append(@, st.cmd),
                                !.coord = send_message(@),
                                !.obs.ready_since_send = FALSE,
                                !.obs.last_sent = st.cmd,
                                !.obs.state_requests =
                                    IF h.phase = "fixture"
                                       /\ st.cmd = <<"state">>
                                      THEN @ + 1 ELSE @],
                      "sent")
      [] st.op = "wait_for_ready" -> Event(h, "wait_for_ready returned")
      [] st.op = "raise_unless" ->
            IF HoldsIn(st.cond, h.coord, h.model, h.run_tracker)
              THEN IF st.note = None THEN h ELSE Event(h, st.note)
              ELSE Raise(Event(h, st.exc), st.exc)
      [] st.op = "if" ->
            [h EXCEPT !.todo =
                (IF HoldsIn(st.cond, h.coord, h.model, h.run_tracker)
                   THEN st.then ELSE st.else) \o @]
      [] st.op = "except" -> h
      [] st.op = "model" -> [h EXCEPT !.model = ApplyModel(@, st.upd)]
      [] st.op = "log" ->
            [h EXCEPT !.action_history = Append(@, st.entry)]
      [] st.op = "note" ->
            [Event(h, st.what) EXCEPT
               !.obs.teardown_ensure =
                   @ \/ (h.phase = "teardown"
                         /\ st.what = "ensure_main_menu called"),
               !.obs.attempts =
                   IF st.what = "attempt" THEN @ + 1
                   ELSE IF st.what \in RecoveryBounds THEN 0 ELSE @,
               !.obs.retries =
                   IF st.what = "retrying" THEN @ + 1
                   ELSE IF st.what \in RecoveryBounds THEN 0 ELSE @,
               !.obs.state_requests =
                   IF st.what \in RecoveryBounds THEN 0 ELSE @]
      [] st.op = "raise" -> Raise(Event(h, st.exc), st.exc)
      [] st.op = "start_run" ->
            [h EXCEPT !.run_tracker = SCREENSHOTS_ENABLED]
      [] st.op = "invariants" ->
            IF check_invariants(h.coord, h.model)
              THEN Event(h, "invariants hold")
              ELSE Raise(Event(h, "invariant failed"), "AssertionError")

\* the thread runs until it has to wait for the queue, or for the engine
RECURSIVE Settle(_)
Settle(h) ==
    IF h.todo = <<>> \/ Waits(h) THEN h
    ELSE Settle(Exec([h EXCEPT !.todo = Tail(@)], Head(h.todo)))

\* the thread's variables become those of h
Becomes(h) ==
    /\ coord' = h.coord
    /\ outq' = h.outq
    /\ model' = h.model
    /\ action_history' = h.action_history
    /\ todo' = h.todo
    /\ phase' = h.phase
    /\ failure' = h.failure
    /\ reported' = h.reported
    /\ run_tracker' = h.run_tracker
    /\ obs' = h.obs

\* a step of the thread starts with no events recorded
Fresh == [Here EXCEPT !.obs.events = {}]

Blocked == phase # "done" /\ todo # <<>> /\ Waits(Here)

\* the run starts: setup runs up to its first wait
Begin ==
    /\ phase = "setup" /\ todo # <<>> /\ ~Waits(Here)
    /\ Becomes(Settle(Fresh))
    /\ UNCHANGED <<inq, game, steps, SCREENSHOTS_ENABLED, timeouts, twin, aside>>

\* wait_for_ready: one pass of the loop that finds a message; when the
\* message sets the ready flag the loop ends and the thread runs on
WaitPoll ==
    /\ Blocked /\ Head(todo).op = "wait_for_ready"
    /\ inq # <<>>
    /\ Becomes(Settle([Fresh EXCEPT
                         !.coord = process_message(@, Head(inq)),
                         !.obs = ObsLine(@, Head(inq), model)]))
    /\ inq' = Tail(inq)
    /\ UNCHANGED <<game, steps, SCREENSHOTS_ENABLED, timeouts, twin, aside>>

\* wait_for_ready: the budget has run out before the flag is set, in a run
\* where fewer than `bound` budgets have run out
WaitTimeoutWithin(bound) ==
    /\ Blocked /\ Head(todo).op = "wait_for_ready"
    /\ timeouts < bound
    /\ timeouts' = timeouts + 1
    /\ Becomes(Settle(Raise(Event([Fresh EXCEPT !.todo = Tail(@)],
                                   "wait_for_ready timed out"),
                             "GameTimeout")))
    /\ UNCHANGED <<inq, game, steps, SCREENSHOTS_ENABLED, twin, aside>>

\* wait_for_ready raises GameTimeout in a run of the state machine
WaitTimeout == WaitTimeoutWithin(MaxTimeouts)

\* a drain_pending_messages whose loop tests `count <= max_drain`
RECURSIVE drained_one_too_many(_, _, _, _)
drained_one_too_many(c, o, q, n) ==
    IF n < 0 \/ q = <<>>
      THEN [coord |-> c, obs |-> o, inq |-> q, count |-> 0]
    ELSE LET d == drained_one_too_many(process_message(c, Head(q)),
                                       ObsLine(o, Head(q), model),
                                       Tail(q), n - 1)
         IN  [d EXCEPT !.count = @ + 1]

RECURSIVE Drained(_, _, _, _)

\* drain_pending_messages: the cached state and the observations after the
\* first n queued lines are processed, and the count it returns
Drained(c, o, q, n) ==
    IF n = 0 \/ q = <<>>
      THEN [coord |-> c, obs |-> o, inq |-> q, count |-> 0]
    ELSE LET d == Drained(process_message(c, Head(q)),
                          ObsLine(o, Head(q), model), Tail(q), n - 1)
         IN  [d EXCEPT !.count = @ + 1]

\* conftest.drain_pending_messages
DoDrain ==
    /\ Blocked /\ Head(todo).op = "drain"
    /\ LET d == Drained(coord, Fresh.obs, inq, Head(todo).max_drain)
       IN  /\ Becomes(Settle([Fresh EXCEPT !.coord = d.coord,
                                           !.obs = d.obs,
                                           !.todo = Tail(@)]))
           /\ inq' = d.inq
    /\ UNCHANGED <<game, steps, SCREENSHOTS_ENABLED, timeouts, twin, aside>>

\* the engine selects a rule whose precondition holds on the model
SelectRule ==
    /\ phase \in {"setup", "rules"} /\ todo = <<>>
    /\ steps < MaxSteps
    /\ \E r \in Rules :
          /\ Precondition(r, model)
          /\ Becomes(Settle([Fresh EXCEPT
                               !.todo = Body(r) \o <<Invariants>>,
                               !.phase = "rules",
                               !.obs.saw_in_game = FALSE,
                               !.obs.forbidden_seen = FALSE]))
    /\ steps' = steps + 1
    /\ UNCHANGED <<inq, game, SCREENSHOTS_ENABLED, timeouts, twin, aside>>

\* the run has no more rules to execute: the finally clause runs teardown
EndRules ==
    /\ phase \in {"setup", "rules"} /\ todo = <<>>
    /\ Becomes(Settle([Fresh EXCEPT !.todo = teardown,
                                    !.phase = "teardown",
                                    !.obs.saw_in_game = FALSE,
                                    !.obs.forbidden_seen = FALSE]))
    /\ UNCHANGED <<inq, game, steps, SCREENSHOTS_ENABLED, timeouts, twin, aside>>

\* teardown returned: the exception of the run, if any, leaves the run
TeardownDone ==
    /\ phase = "teardown" /\ todo = <<>>
    /\ Becomes([Fresh EXCEPT !.phase = "done", !.reported = failure])
    /\ UNCHANGED <<inq, game, steps, SCREENSHOTS_ENABLED, timeouts, twin, aside>>


\* ----------------------------------------------------------------- the game
\* the state of the game after it accepts a command: start and arena begin
\* a run, at once or later, or fail to; a run that is active may end while
\* any command is served (abandon, win and lose end it, a fight or a run
\* also ends on its own), at once or later
GameAfter(cmd, g) ==
    IF g.in_game
      THEN {[in_game |-> FALSE, pending |-> "none"],
            [in_game |-> TRUE, pending |-> "leave"], g}
    ELSE IF cmd[1] \in {"start", "arena"}
      THEN {[in_game |-> TRUE, pending |-> "none"],
            [in_game |-> FALSE, pending |-> "enter"], g}
    ELSE {g}

\* the errors the game answers a command with: a delegated wait times out
\* when its condition does not hold in the game (the game's combat state is
\* not modelled, so a wait for combat may always time out); any other
\* command may be refused
ErrorsFor(cmd, g) ==
    IF cmd = <<"wait_for", "visual_stable">> THEN {StabilityError}
    ELSE IF cmd = <<"wait_for", "in_game", "true">>
      THEN IF g.in_game THEN {} ELSE {WaitForTimedOut}
    ELSE IF cmd = <<"wait_for", "main_menu">>
      THEN IF g.in_game THEN {WaitForTimedOut} ELSE {}
    ELSE IF cmd[1] = "wait_for" THEN {WaitForTimedOut}
    ELSE {InvalidCommand}

\* the line that reports the game's state g
Report(ready, err, g, gs) ==
    Line(ready, err, None, g.in_game,
         IF err = None /\ g.in_game THEN gs ELSE NoGame)

\* the game consumes a command line and answers it with one ready line
GameRespond ==
    /\ phase # "done"
    /\ outq # <<>> /\ Len(inq) < MaxQueue
    /\ \/ \E g2 \in GameAfter(Head(outq), game), gs \in GameStates :
             /\ game' = g2
             /\ inq' = Append(inq, Report(TRUE, None, g2, gs))
       \/ \E e \in ErrorsFor(Head(outq), game) :
             /\ game' = game
             /\ inq' = Append(inq, Report(TRUE, e, game, NoGame))
    /\ outq' = Tail(outq)
    /\ obs' = [obs EXCEPT !.events = {}]
    /\ UNCHANGED <<coord, model, action_history, todo, phase, steps,
                   failure, reported, SCREENSHOTS_ENABLED, run_tracker,
                   timeouts, twin, aside>>

\* a pending transition completes; the game may report the new state
GameTransition ==
    /\ phase # "done"
    /\ game.pending # "none"
    /\ game' = [in_game |-> (game.pending = "enter"), pending |-> "none"]
    /\ \/ inq' = inq
       \/ /\ Len(inq) < MaxQueue
          /\ \E ready \in BOOLEAN, gs \in GameStates :
                inq' = Append(inq, Report(ready, None, game', gs))
    /\ obs' = [obs EXCEPT !.events = {}]
    /\ UNCHANGED <<coord, outq, model, action_history, todo, phase, steps,
                   failure, reported, SCREENSHOTS_ENABLED, run_tracker,
                   timeouts, twin, aside>>

\* ------------------------------------------------------- the specification
\* the cached state of a coordinator that has processed no line
NoState ==
    [game_is_ready |-> FALSE, in_game |-> FALSE, last_error |-> None,
     last_message |-> None, last_game_state |-> NoGame]

\* the exit code of a process that has not exited
Running == -1

\* run_agent.GameCommunicator.__init__
NewCommunicator ==
    [game_is_ready |-> FALSE, in_game |-> FALSE, last_state |-> None]

\* no harness process and no timed wait loop is running
AsideIdle ==
    /\ comm = NewCommunicator
    /\ results = <<>>
    /\ exit_code = Running
    /\ pc = "idle"
    /\ now = 0
    /\ start = 0

\* no second run
NoTwin ==
    [model |-> InitialModel, coord |-> NoState, todo |-> <<>>,
     failure |-> None]

\* the state after conftest is imported: the first ready line is processed
Init ==
    /\ \E g \in BOOLEAN, gs \in GameStates :
          /\ game = [in_game |-> g, pending |-> "none"]
          /\ coord = process_message(NoState, Report(TRUE, None, game, gs))
    /\ inq = <<>>
    /\ outq = <<>>
    /\ model = InitialModel
    /\ action_history = <<>>
    /\ todo = setup \o <<Invariants>>
    /\ phase = "setup"
    /\ steps = 0
    /\ failure = None
    /\ reported = None
    /\ SCREENSHOTS_ENABLED \in BOOLEAN
    /\ run_tracker = FALSE
    /\ timeouts = 0
    /\ obs = InitialObs
    /\ twin = NoTwin
    /\ AsideIdle

Next ==
    \/ Begin \/ WaitPoll \/ WaitTimeout \/ DoDrain
    \/ SelectRule \/ EndRules \/ TeardownDone
    \/ GameRespond \/ GameTransition

Spec == Init /\ [][Next]_vars

\* ------------------------------------------------- main-menu recovery alone
\* One call of a main-menu recovery, conftest._ensure_main_menu as the
\* at_main_menu fixture calls it before a test or the ensure_main_menu of
\* the stateful tests, against a game an earlier test has left in any state.

\* the recovery routines
Recoveries ==
    [_ensure_main_menu |-> conftest_ensure_main_menu,
     ensure_main_menu |-> ensure_main_menu]

\* the fixture calls the recovery
RecoveryCalled ==
    /\ phase = "fixture" /\ todo = <<>> /\ steps = 0
    /\ \E routine \in DOMAIN Recoveries :
          /\ pc' = routine
          /\ Becomes(Settle([Fresh EXCEPT !.todo = Recoveries[routine]]))
    /\ steps' = 1
    /\ UNCHANGED <<inq, game, SCREENSHOTS_ENABLED, timeouts, twin, comm,
                   results, exit_code, now, start>>

\* wait_for_ready raises GameTimeout during the recovery
RecoveryWaitTimeout == WaitTimeoutWithin(MaxRecoveryTimeouts)

\* the recovery returned normally
RecoveryReturned ==
    /\ phase = "fixture" /\ todo = <<>> /\ steps = 1
    /\ Becomes([Fresh EXCEPT !.phase = "done"])
    /\ UNCHANGED <<inq, game, steps, SCREENSHOTS_ENABLED, timeouts, twin,
                   aside>>

\* an earlier test has left the game in a run or at the menu, the cache
\* with what some earlier line reported, and at most one line unread
InitRecovery ==
    /\ \E g \in BOOLEAN, c \in BOOLEAN, gs \in GameStates :
          /\ game = [in_game |-> g, pending |-> "none"]
          /\ coord = process_message(NoState,
                         Report(TRUE, None, [in_game |-> c], gs))
          /\ inq \in {<<>>, <<Report(TRUE, None, game, gs)>>}
    /\ outq = <<>>
    /\ model = InitialModel
    /\ action_history = <<>>
    /\ todo = <<>>
    /\ phase = "fixture"
    /\ steps = 0
    /\ failure = None
    /\ reported = None
    /\ SCREENSHOTS_ENABLED = FALSE
    /\ run_tracker = FALSE
    /\ timeouts = 0
    /\ obs = InitialObs
    /\ twin = NoTwin
    /\ AsideIdle

NextRecovery ==
    \/ RecoveryCalled \/ WaitPoll \/ RecoveryWaitTimeout \/ DoDrain
    \/ RecoveryReturned \/ GameRespond \/ GameTransition

SpecRecovery == InitRecovery /\ [][NextRecovery]_vars

\* ------------------------------------------- two runs of the same rules
\* Two ArenaStateMachine runs that have completed setup execute the same
\* rules with the same arguments, each against its own game.  A run's game
\* answers each of its waits with a ready line of its own choice.

\* the ready lines a game answers a wait with
AnswerLines ==
    { Report(TRUE, None, [in_game |-> g], gs) :
        g \in BOOLEAN, gs \in GameStates }

\* the second run as a thread record
There ==
    [Fresh EXCEPT !.coord = twin.coord, !.model = twin.model,
                  !.todo = twin.todo, !.failure = twin.failure]

\* what is kept of a thread record: a run that failed executes no more
Kept(h) ==
    [model |-> h.model, coord |-> h.coord,
     todo |-> IF h.failure = None THEN h.todo ELSE <<>>,
     failure |-> h.failure]

TwinDormant ==
    UNCHANGED <<inq, outq, game, action_history, phase, reported,
                SCREENSHOTS_ENABLED, run_tracker, timeouts, obs, aside>>

\* the engine selects the same rule, with the same arguments, in both runs
TwinSelectRule ==
    /\ todo = <<>> /\ twin.todo = <<>>
    /\ failure = None /\ twin.failure = None
    /\ steps < MaxSteps
    /\ \E r \in Rules :
          /\ Precondition(r, model) /\ Precondition(r, twin.model)
          /\ LET h1 == Kept(Settle([Fresh EXCEPT
                                      !.todo = Body(r) \o <<Invariants>>]))
                 h2 == Kept(Settle([There EXCEPT
                                      !.todo = Body(r) \o <<Invariants>>]))
             IN  /\ coord' = h1.coord /\ model' = h1.model
                 /\ todo' = h1.todo /\ failure' = h1.failure
                 /\ twin' = h2
    /\ steps' = steps + 1
    /\ TwinDormant

\* the game of the first run answers the wait the run is at
TwinFirstAnswered ==
    /\ todo # <<>> /\ Head(todo).op = "wait_for_ready"
    /\ \E msg \in AnswerLines :
          LET h == Kept(Settle([Fresh EXCEPT
                                  !.coord = process_message(@, msg)]))
          IN  /\ coord' = h.coord /\ model' = h.model
              /\ todo' = h.todo /\ failure' = h.failure
    /\ UNCHANGED <<twin, steps>>
    /\ TwinDormant

\* the game of the second run answers the wait the run is at
TwinSecondAnswered ==
    /\ twin.todo # <<>> /\ Head(twin.todo).op = "wait_for_ready"
    /\ \E msg \in AnswerLines :
          twin' = Kept(Settle([There EXCEPT
                                 !.coord = process_message(@, msg)]))
    /\ UNCHANGED <<coord, model, todo, failure, steps>>
    /\ TwinDormant

\* both runs have completed setup at the main menu
InitTwin ==
    /\ coord = process_message(NoState,
                   Report(TRUE, None, [in_game |-> FALSE], NoGame))
    /\ twin = [NoTwin EXCEPT !.coord = coord]
    /\ game = [in_game |-> FALSE, pending |-> "none"]
    /\ inq = <<>>
    /\ outq = <<>>
    /\ model = InitialModel
    /\ action_history = <<>>
    /\ todo = <<>>
    /\ phase = "rules"
    /\ steps = 0
    /\ failure = None
    /\ reported = None
    /\ SCREENSHOTS_ENABLED = FALSE
    /\ run_tracker = FALSE
    /\ timeouts = 0
    /\ obs = InitialObs
    /\ AsideIdle

NextTwin == TwinSelectRule \/ TwinFirstAnswered \/ TwinSecondAnswered

SpecTwin == InitTwin /\ [][NextTwin]_vars

\* -------------------------------------------------- the cache, line by line
\* The coordinator's cached state while lines of any content are processed
\* one after the other; obs keeps the last line and the cache before it.

\* the lines a game can write
AnyLines ==
    { Line(r, e, m, FALSE, NoGame) :
        r \in BOOLEAN, e \in {None, InvalidCommand},
        m \in {None, "message"} }
    \cup { Line(r, e, m, TRUE, gs) :
              r \in BOOLEAN, e \in {None, InvalidCommand},
              m \in {None, "message"}, gs \in GameStates }

MsgDormant ==
    UNCHANGED <<outq, game, model, action_history, todo, phase, steps,
                failure, reported, SCREENSHOTS_ENABLED, run_tracker,
                timeouts, twin, aside>>

\* the reader queues a line, JSON or not
MsgQueued ==
    /\ obs.raised = None
    /\ Len(inq) < MaxQueue
    /\ \E msg \in AnyLines \cup {NotJSON} : inq' = Append(inq, msg)
    /\ UNCHANGED <<coord, obs>>
    /\ MsgDormant

\* the wait loop takes the first queued line and _process_message handles
\* it
MsgProcessed ==
    /\ obs.raised = None
    /\ inq # <<>> /\ IsJSON(Head(inq))
    /\ coord' = process_message(coord, Head(inq))
    /\ obs' = [processed |-> TRUE, line |-> Head(inq), before |-> coord,
               rejected |-> FALSE, raised |-> None]
    /\ inq' = Tail(inq)
    /\ MsgDormant

\* the wait loop takes a line that is not JSON: json.loads raises in
\* _process_message before any field is assigned, nothing catches the
\* exception, and it leaves the loop
MsgRejected ==
    /\ obs.raised = None
    /\ inq # <<>> /\ ~IsJSON(Head(inq))
    /\ obs' = [obs EXCEPT !.processed = FALSE, !.rejected = TRUE,
                          !.raised = "JSONDecodeError"]
    /\ inq' = Tail(inq)
    /\ UNCHANGED coord
    /\ MsgDormant

InitMsg ==
    /\ coord = NoState
    /\ obs = [processed |-> FALSE, line |-> Line(FALSE, None, None, FALSE, NoGame),
              before |-> NoState, rejected |-> FALSE, raised |-> None]
    /\ inq = <<>>
    /\ outq = <<>>
    /\ game = [in_game |-> FALSE, pending |-> "none"]
    /\ model = InitialModel
    /\ action_history = <<>>
    /\ todo = <<>>
    /\ phase = "setup"
    /\ steps = 0
    /\ failure = None
    /\ reported = None
    /\ SCREENSHOTS_ENABLED = FALSE
    /\ run_tracker = FALSE
    /\ timeouts = 0
    /\ twin = NoTwin
    /\ AsideIdle

NextMsg == MsgQueued \/ MsgProcessed \/ MsgRejected

SpecMsg == InitMsg /\ [][NextMsg]_vars

\* ----------------------------------------------- drain_pending_messages alone
\* drain_pending_messages called with any max_drain on any backlog; obs
\* keeps the call: its argument, the queue and the cache it found, and the
\* count it returned.

\* lines of the backlog: a ready line at the menu, a line from inside a run
\* that carries a message, an error line
DrainLines ==
    { Line(TRUE, None, None, FALSE, NoGame),
      Line(FALSE, None, "message", TRUE,
           [present |-> TRUE, in_combat |-> TRUE, screen_type |-> "NONE",
            proceed_available |-> FALSE]),
      Line(TRUE, InvalidCommand, None, FALSE, NoGame) }

DrainDormant ==
    UNCHANGED <<outq, game, model, action_history, todo, phase, steps,
                failure, reported, SCREENSHOTS_ENABLED, run_tracker,
                timeouts, twin, aside>>

\* the reader queues a line; the last call is no longer the last thing
\* that happened to the queue
DrainLineQueued ==
    /\ Len(inq) < MaxBacklog
    /\ \E msg \in DrainLines : inq' = Append(inq, msg)
    /\ obs' = [obs EXCEPT !.drained = FALSE]
    /\ UNCHANGED coord
    /\ DrainDormant

\* drain_pending_messages(coordinator, max_drain) is called and returns
DrainCalled ==
    /\ \E max_drain \in 0..MaxDrain :
          LET d == Drained(coord, InitialObs, inq, max_drain)
          IN  /\ coord' = d.coord
              /\ inq' = d.inq
              /\ obs' = [drained |-> TRUE, max_drain |-> max_drain,
                         count |-> d.count, queued |-> inq,
                         before |-> coord]
    /\ DrainDormant

InitDrain ==
    /\ coord = NoState
    /\ obs = [drained |-> FALSE, max_drain |-> 0, count |-> 0,
              queued |-> <<>>, before |-> NoState]
    /\ inq = <<>>
    /\ outq = <<>>
    /\ game = [in_game |-> FALSE, pending |-> "none"]
    /\ model = InitialModel
    /\ action_history = <<>>
    /\ todo = <<>>
    /\ phase = "setup"
    /\ steps = 0
    /\ failure = None
    /\ reported = None
    /\ SCREENSHOTS_ENABLED = FALSE
    /\ run_tracker = FALSE
    /\ timeouts = 0
    /\ twin = NoTwin
    /\ AsideIdle

NextDrain == DrainLineQueued \/ DrainCalled

SpecDrain == InitDrain /\ [][NextDrain]_vars

\* ------------------------------------------------ run_agent.py, the harness
\* The process that CommunicationMod spawns: main() signals ready, waits
\* for the first ready line and runs TestRunner.run_all_tests.  Its
\* GameCommunicator writes command lines to stdout (outq) and reads state
\* lines from stdin (inq).  pc is the statement the process is at and, in
\* an execute() call, the call site.

At(at, site) == [at |-> at, site |-> site]

\* the command each execute() call of run_all_tests sends
Command(site) ==
    CASE site \in {"ensure.state", "ensure.abandon.state", "state_command",
                   "start_game.state", "abandon.state"} -> <<"state">>
      [] site \in {"ensure.abandon", "abandon.abandon"} -> <<"abandon">>
      [] site = "start_game.start" -> <<"start", "ironclad", "0">>

\* run_agent.GameState with its defaults and the given error
ErrorState(err) ==
    [ready_for_command |-> FALSE, in_game |-> FALSE, error |-> err,
     available_commands |-> {}]

\* GameCommunicator._parse_state: the communicator after the line, and the
\* GameState returned
parse_state(c, line) ==
    IF IsJSON(line)
      THEN [comm |-> [game_is_ready |-> line.ready_for_command,
                      in_game |-> line.in_game, last_state |-> line],
            state |-> line]
      ELSE [comm |-> c, state |-> ErrorState("Parse error")]

\* TestRunner.pass_test and fail_test
pass_test(res, name) == Append(res, [name |-> name, passed |-> TRUE])
fail_test(res, name) == Append(res, [name |-> name, passed |-> FALSE])

\* run_all_tests returns without reporting: main returns and the process
\* ends with the interpreter's exit code 0
Returns(res) ==
    [pc |-> At("exited", "main"), results |-> res, exit_code |-> 0]

\* TestRunner.report_results: sys.exit(1) when a test failed; otherwise it
\* returns, and so does main
report_results(res) ==
    [pc |-> At("exited", "main"), results |-> res,
     exit_code |-> IF \E i \in 1..Len(res) : ~res[i].passed THEN 1 ELSE 0]

\* the next execute() call
Executes(site, res) ==
    [pc |-> At("flush", site), results |-> res, exit_code |-> Running]

\* TestRunner.run_all_tests from the return of the execute() call at
\* `site` on, with the GameState st it returned and the communicator c
AfterExecute(site, st, c, res) ==
    CASE site = "ensure.state" ->
            IF st.error # None
              THEN Returns(fail_test(res, "ensure_main_menu"))
            ELSE IF ~st.in_game \/ ~c.in_game
              THEN Executes("state_command",
                            pass_test(res, "ensure_main_menu"))
            ELSE Executes("ensure.abandon", res)
      [] site = "ensure.abandon" ->
            IF st.error # None
              THEN Returns(fail_test(res, "ensure_main_menu"))
            ELSE Executes("ensure.abandon.state", res)
      [] site = "ensure.abandon.state" ->
            IF ~st.in_game
              THEN Executes("state_command",
                            pass_test(res, "ensure_main_menu"))
            ELSE Returns(fail_test(res, "ensure_main_menu"))
      [] site = "state_command" ->
            LET r1 == IF st.error = None
                        THEN pass_test(res, "state_command")
                        ELSE fail_test(res, "state_command")
                r2 == IF "start" \in st.available_commands
                        THEN pass_test(r1, "main_menu_commands")
                        ELSE fail_test(r1, "main_menu_commands")
            IN  Executes("start_game.start", r2)
      [] site = "start_game.start" -> Executes("start_game.state", res)
      [] site = "start_game.state" ->
            IF st.in_game
              THEN IF ~c.in_game
                     THEN report_results(
                              pass_test(pass_test(res, "start_game"),
                                        "abandon_command"))
                     ELSE Executes("abandon.abandon",
                                   pass_test(res, "start_game"))
            ELSE Returns(fail_test(res, "start_game"))
      [] site = "abandon.abandon" ->
            IF st.error # None
              THEN report_results(fail_test(res, "abandon_command"))
            ELSE Executes("abandon.state", res)
      [] site = "abandon.state" ->
            IF ~st.in_game
              THEN report_results(pass_test(res, "abandon_command"))
            ELSE report_results(fail_test(res, "abandon_command"))

AgentDormant ==
    UNCHANGED <<coord, model, action_history, todo, phase, steps, failure,
                reported, SCREENSHOTS_ENABLED, run_tracker, timeouts, obs,
                twin, now, start>>

\* GameCommunicator.signal_ready
AgentSignalReady ==
    /\ pc = At("signal_ready", "main")
    /\ outq' = Append(outq, <<"ready">>)
    /\ comm' = [comm EXCEPT !.game_is_ready = FALSE]
    /\ pc' = At("wait_for_ready", "main")
    /\ UNCHANGED <<inq, game, results, exit_code>>
    /\ AgentDormant

\* GameCommunicator.wait_for_ready in main: a line is received; a ready
\* line ends the wait and run_all_tests begins
AgentWaitPoll ==
    /\ pc = At("wait_for_ready", "main")
    /\ inq # <<>>
    /\ LET p == parse_state(comm, Head(inq))
       IN  /\ comm' = p.comm
           /\ pc' = IF p.state.ready_for_command
                      THEN At("flush", "ensure.state") ELSE pc
    /\ inq' = Tail(inq)
    /\ UNCHANGED <<outq, game, results, exit_code>>
    /\ AgentDormant

\* main: wait_for_ready returned False, sys.exit(1)
AgentWaitTimeout ==
    /\ pc = At("wait_for_ready", "main")
    /\ inq = <<>>
    /\ pc' = At("exited", "main")
    /\ exit_code' = 1
    /\ UNCHANGED <<inq, outq, game, comm, results>>
    /\ AgentDormant

\* GameCommunicator.send_command: print(command, flush=True)
AgentFlush ==
    /\ pc.at = "flush"
    /\ outq' = Append(outq, Command(pc.site))
    /\ pc' = At("clear", pc.site)
    /\ UNCHANGED <<inq, game, comm, results, exit_code>>
    /\ AgentDormant

\* GameCommunicator.send_command: self.game_is_ready = False
AgentClear ==
    /\ pc.at = "clear"
    /\ comm' = [comm EXCEPT !.game_is_ready = FALSE]
    /\ pc' = At("receive", pc.site)
    /\ UNCHANGED <<inq, outq, game, results, exit_code>>
    /\ AgentDormant

\* GameCommunicator.execute: receive_state returned a line's GameState
AgentReceive ==
    /\ pc.at = "receive"
    /\ inq # <<>>
    /\ LET p == parse_state(comm, Head(inq))
           a == AfterExecute(pc.site, p.state, p.comm, results)
       IN  /\ comm' = p.comm
           /\ pc' = a.pc
           /\ results' = a.results
           /\ exit_code' = a.exit_code
    /\ inq' = Tail(inq)
    /\ UNCHANGED <<outq, game>>
    /\ AgentDormant

\* GameCommunicator.execute: receive_state returned None
AgentReceiveTimeout ==
    /\ pc.at = "receive"
    /\ inq = <<>>
    /\ LET a == AfterExecute(pc.site,
                             ErrorState("Timeout waiting for response"),
                             comm, results)
       IN  /\ pc' = a.pc
           /\ results' = a.results
           /\ exit_code' = a.exit_code
    /\ UNCHANGED <<inq, outq, game, comm>>
    /\ AgentDormant

\* the lines the game writes in state g: its state with the commands
\* available there, an error, or a line that is not JSON
AgentLines(g) ==
    { [ready_for_command |-> r, in_game |-> g.in_game, error |-> None,
       available_commands |-> IF g.in_game THEN {"state"}
                              ELSE {"start", "state"}] : r \in BOOLEAN }
    \cup {[ErrorState(InvalidCommand) EXCEPT !.ready_for_command = TRUE,
                                             !.in_game = g.in_game]}
    \cup {NotJSON}

\* the game consumes a line of the process and writes a line
AgentGameRespond ==
    /\ pc.at # "exited"
    /\ outq # <<>> /\ Len(inq) < MaxQueue
    /\ \E g2 \in GameAfter(Head(outq), game) :
          /\ game' = g2
          /\ \E line \in AgentLines(g2) : inq' = Append(inq, line)
    /\ outq' = Tail(outq)
    /\ UNCHANGED <<comm, results, exit_code, pc>>
    /\ AgentDormant

\* a pending transition of the game completes
AgentGameTransition ==
    /\ pc.at # "exited"
    /\ game.pending # "none"
    /\ game' = [in_game |-> (game.pending = "enter"), pending |-> "none"]
    /\ UNCHANGED <<inq, outq, comm, results, exit_code, pc>>
    /\ AgentDormant

InitAgent ==
    /\ game \in {[in_game |-> g, pending |-> "none"] : g \in BOOLEAN}
    /\ comm = NewCommunicator
    /\ results = <<>>
    /\ exit_code = Running
    /\ pc = At("signal_ready", "main")
    /\ now = 0
    /\ start = 0
    /\ coord = NoState
    /\ inq = <<>>
    /\ outq = <<>>
    /\ model = InitialModel
    /\ action_history = <<>>
    /\ todo = <<>>
    /\ phase = "setup"
    /\ steps = 0
    /\ failure = None
    /\ reported = None
    /\ SCREENSHOTS_ENABLED = FALSE
    /\ run_tracker = FALSE
    /\ timeouts = 0
    /\ obs = InitialObs
    /\ twin = NoTwin

NextAgent ==
    \/ AgentSignalReady \/ AgentWaitPoll \/ AgentWaitTimeout
    \/ AgentFlush \/ AgentClear \/ AgentReceive \/ AgentReceiveTimeout
    \/ AgentGameRespond \/ AgentGameTransition

SpecAgent == InitAgent /\ [][NextAgent]_vars

\* ------------------------------------------------------ the wait loops, timed
\* One call of a loop that waits for the ready flag, with a clock: time
\* passes only while the loop is blocked in a poll of the queue, a queued
\* line ends the poll at once, and the game writes at most one line in a
\* tick.  obs keeps the call: its timeout, the deadline and the arguments
\* of the poll it is in, how it ended, and what the game has written.

\* the loops: conftest.wait_for_ready, GameCommunicator.wait_for_ready,
\* ArenaCommunicator._wait_for_ready, and the loop of
\* simple_test.test_start_game
WaitLoops ==
    {"conftest.wait_for_ready", "GameCommunicator.wait_for_ready",
     "ArenaCommunicator._wait_for_ready", "simple_test.test_start_game"}

\* the loops that are called with a timeout
TimedLoops ==
    {"conftest.wait_for_ready", "GameCommunicator.wait_for_ready"}

\* a poll that blocks until a line arrives has no deadline
NoDeadline == -1

\* the clock is observed up to here, beyond the end of every timed wait
Horizon == MaxBudget + 2 * Sec

\* min(a, b)
Min(a, b) == IF a < b THEN a ELSE b

poll_timeout_unbounded(remaining) == Sec

\* the timeout of one poll of conftest.wait_for_ready
poll_timeout(remaining) == Min(Sec, remaining)

WaitDormant ==
    UNCHANGED <<outq, game, model, action_history, todo, phase, steps,
                failure, reported, SCREENSHOTS_ENABLED, run_tracker,
                timeouts, twin, results, exit_code>>

\* the loop ends
Ends(outcome) ==
    /\ pc' = [pc EXCEPT !.at = "done"]
    /\ obs' = [obs EXCEPT !.outcome = outcome, !.ended = now]

\* the loop blocks in a poll of the queue for at most t ticks
Polls(t, remaining) ==
    /\ pc' = [pc EXCEPT !.at = "poll"]
    /\ obs' = [obs EXCEPT
                 !.deadline = IF t = NoDeadline THEN NoDeadline ELSE now + t,
                 !.poll = t, !.remaining = remaining, !.polled = TRUE]

\* the test at the head of the loop, and what follows it up to the poll
WaitTest ==
    /\ pc.at = "test"
    /\ CASE pc.kind = "conftest.wait_for_ready" ->
               LET remaining == obs.timeout - (now - start)
               IN  IF coord.game_is_ready THEN Ends("returned")
                   ELSE IF remaining <= 0 THEN Ends("GameTimeout")
                   ELSE Polls(poll_timeout(remaining), remaining)
         [] pc.kind = "GameCommunicator.wait_for_ready" ->
               IF now - start < obs.timeout
                 THEN Polls(Sec, obs.timeout - (now - start))
                 ELSE Ends("False")
         [] OTHER ->
               IF coord.game_is_ready THEN Ends("returned")
               ELSE Polls(NoDeadline, NoDeadline)
    /\ UNCHANGED <<coord, comm, inq, now, start>>
    /\ WaitDormant

\* the poll returns a line, which is processed
WaitGot ==
    /\ pc.at = "poll" /\ inq # <<>>
    /\ IF pc.kind = "GameCommunicator.wait_for_ready"
         THEN LET p == parse_state(comm, Head(inq))
              IN  /\ comm' = p.comm
                  /\ coord' = coord
                  /\ IF p.state.ready_for_command
                        THEN Ends("True")
                        ELSE /\ pc' = [pc EXCEPT !.at = "test"]
                             /\ obs' = [obs EXCEPT !.received = @ + 1]
         ELSE /\ coord' = process_message(coord, Head(inq))
              /\ comm' = comm
              /\ pc' = [pc EXCEPT !.at = "test"]
              /\ obs' = [obs EXCEPT !.received = @ + 1]
    /\ inq' = Tail(inq)
    /\ UNCHANGED <<now, start>>
    /\ WaitDormant

\* the poll's own timeout has passed with no line: it returns None
WaitNone ==
    /\ pc.at = "poll" /\ inq = <<>>
    /\ obs.deadline # NoDeadline /\ now >= obs.deadline
    /\ pc' = [pc EXCEPT !.at = "test"]
    /\ UNCHANGED <<coord, comm, inq, now, start, obs>>
    /\ WaitDormant

\* time passes while the loop is blocked in a poll
Tick ==
    /\ pc.at = "poll" /\ inq = <<>>
    /\ obs.deadline = NoDeadline \/ now < obs.deadline
    /\ now < Horizon
    /\ now' = now + 1
    /\ obs' = [obs EXCEPT !.sent_this_tick = FALSE]
    /\ UNCHANGED <<coord, comm, inq, start, pc>>
    /\ WaitDormant

\* the game writes a line, ready or not
WaitLineQueued ==
    /\ pc.at # "done"
    /\ Len(inq) < MaxQueue /\ ~obs.sent_this_tick
    /\ \E r \in BOOLEAN :
          /\ inq' = Append(inq, Line(r, None, None, FALSE, NoGame))
          /\ obs' = [obs EXCEPT !.sent_this_tick = TRUE,
                                !.ready_sent = @ \/ r]
    /\ UNCHANGED <<coord, comm, now, start, pc>>
    /\ WaitDormant

\* a loop is called, with a timeout when it takes one, after a command
\* was sent: the ready flag is false
InitWait ==
    /\ \E k \in WaitLoops, T \in 1..MaxBudget :
          /\ pc = [kind |-> k, at |-> "test"]
          /\ obs = [timeout |-> IF k \in TimedLoops THEN T ELSE NoDeadline,
                    deadline |-> NoDeadline, poll |-> 0, remaining |-> 0,
                    polled |-> FALSE, outcome |-> None, ended |-> 0,
                    received |-> 0,
                    ready_sent |-> FALSE, sent_this_tick |-> FALSE]
    /\ now = 0
    /\ start = 0
    /\ coord = NoState
    /\ comm = NewCommunicator
    /\ results = <<>>
    /\ exit_code = Running
    /\ inq = <<>>
    /\ outq = <<>>
    /\ game = [in_game |-> FALSE, pending |-> "none"]
    /\ model = InitialModel
    /\ action_history = <<>>
    /\ todo = <<>>
    /\ phase = "setup"
    /\ steps = 0
    /\ failure = None
    /\ reported = None
    /\ SCREENSHOTS_ENABLED = FALSE
    /\ run_tracker = FALSE
    /\ timeouts = 0
    /\ twin = NoTwin

NextWait == WaitTest \/ WaitGot \/ WaitNone \/ Tick \/ WaitLineQueued

\* the loop runs whenever it can, and the clock does not stop
SpecWait ==
    /\ InitWait /\ [][NextWait]_vars
    /\ WF_vars(WaitTest) /\ WF_vars(WaitGot) /\ WF_vars(WaitNone)
    /\ WF_vars(Tick)

\* ----------------------------------------------------- the action traces
\* The three lists that record the actions of a run, each with its own way
\* of recording: AgentState.add_action of the exploratory agent, the
\* action_history of ArenaStateMachine and the _log of
\* ArenaTransitionMachine.  An entry is modelled by its number in the run:
\* add_action and _log prefix the time, and what the entry says has no part
\* in how it is recorded.  pc is the recorder, steps the actions recorded.

\* AgentState.add_action keeps the history "manageable": the length above
\* which it cuts the list, and the number of entries it keeps then
history_limit == 1000

history_kept == 500

\* the recorders
TraceRecorders ==
    {"AgentState.add_action", "ArenaStateMachine.action_history",
     "ArenaTransitionMachine._log"}

\* AgentState.add_action, the list after the call
add_action(history, action) ==
    LET appended == Append(history, action)
    IN  IF Len(appended) > history_limit
          THEN SubSeq(appended, Len(appended) - history_kept + 1,
                      Len(appended))
          ELSE appended

TraceDormant ==
    UNCHANGED <<coord, inq, outq, game, model, todo, phase, failure,
                reported, SCREENSHOTS_ENABLED, run_tracker, timeouts, obs,
                twin, comm, results, exit_code, pc, now, start>>

\* the exploratory agent records an action
AddAction ==
    /\ pc = "AgentState.add_action" /\ steps < MaxActions
    /\ action_history' = add_action(action_history, steps + 1)
    /\ steps' = steps + 1
    /\ TraceDormant

\* a rule of ArenaStateMachine records its command
HistoryAppended ==
    /\ pc = "ArenaStateMachine.action_history" /\ steps < MaxActions
    /\ action_history' = Append(action_history, steps + 1)
    /\ steps' = steps + 1
    /\ TraceDormant

\* ArenaTransitionMachine._log
Logged ==
    /\ pc = "ArenaTransitionMachine._log" /\ steps < MaxActions
    /\ action_history' = Append(action_history, steps + 1)
    /\ steps' = steps + 1
    /\ TraceDormant

\* a run begins: the list is empty
InitTrace ==
    /\ pc \in TraceRecorders
    /\ action_history = <<>>
    /\ steps = 0
    /\ obs = InitialObs
    /\ now = 0
    /\ start = 0
    /\ coord = NoState
    /\ comm = NewCommunicator
    /\ results = <<>>
    /\ exit_code = Running
    /\ inq = <<>>
    /\ outq = <<>>
    /\ game = [in_game |-> FALSE, pending |-> "none"]
    /\ model = InitialModel
    /\ todo = <<>>
    /\ phase = "rules"
    /\ failure = None
    /\ reported = None
    /\ SCREENSHOTS_ENABLED = FALSE
    /\ run_tracker = FALSE
    /\ timeouts = 0
    /\ twin = NoTwin

NextTrace == AddAction \/ HistoryAppended \/ Logged

SpecTrace == InitTrace /\ [][NextTrace]_vars

\* ------------------------------------------------- a run and its replay
\* Two runs of ArenaStateMachine, setup included, that execute the same
\* rules with the same arguments against games that behave the same: every
\* wait of the two runs is answered by the same line, every drain finds the
\* same lines queued, and a wait times out in both or in neither.  What may
\* differ is what each coordinator has cached before the run: the
\* coordinator lives for the whole session and setup does not clear it.
\* The second run is the record twin.

\* the lines the game answers a command with, errors included
ReplayLines ==
    AnswerLines
    \cup { Report(TRUE, e, [in_game |-> FALSE], NoGame) :
             e \in {InvalidCommand, WaitForTimedOut} }

\* what a coordinator may have cached when a run begins: it has processed
\* the lines of the runs before
ResidualCaches ==
    { process_message(process_message(NoState, l1), l2) :
        l1 \in AnswerLines, l2 \in AnswerLines }

\* the lines a drain may find queued
ReplayBacklogs == {<<>>} \cup { <<l>> : l \in ReplayLines }

AtWait(t) == t # <<>> /\ Head(t).op = "wait_for_ready"

AtDrain(t) == t # <<>> /\ Head(t).op = "drain"

\* the first run becomes h1 and the second h2
ReplayBecomes(h1, h2) ==
    /\ coord' = h1.coord /\ model' = h1.model
    /\ todo' = h1.todo /\ failure' = h1.failure
    /\ twin' = h2

\* run h after its wait processed the line msg
Answered(h, msg) ==
    IF AtWait(h.todo)
      THEN Kept(Settle([h EXCEPT !.coord = process_message(@, msg)]))
      ELSE Kept(h)

\* run h after its wait ran out of time
TimedOut(h) ==
    IF AtWait(h.todo)
      THEN Kept(Settle(Raise(Event([h EXCEPT !.todo = Tail(@)],
                                   "wait_for_ready timed out"),
                             "GameTimeout")))
      ELSE Kept(h)

\* run h after its drain found the lines q queued
DrainedOf(h, q) ==
    IF AtDrain(h.todo)
      THEN Kept(Settle([h EXCEPT
                          !.coord = Drained(@, h.obs, q,
                                            Head(h.todo).max_drain).coord,
                          !.todo = Tail(@)]))
      ELSE Kept(h)

\* both runs start setup and run to its first wait
ReplayBegin ==
    /\ steps = 0 /\ todo # <<>> /\ ~Waits(Here)
    /\ ReplayBecomes(Kept(Settle(Fresh)), Kept(Settle(There)))
    /\ UNCHANGED steps
    /\ TwinDormant

\* the games answer the waits the runs are at, with the same line
ReplayAnswered ==
    /\ AtWait(todo) \/ AtWait(twin.todo)
    /\ \E msg \in ReplayLines :
          ReplayBecomes(Answered(Fresh, msg), Answered(There, msg))
    /\ UNCHANGED steps
    /\ TwinDormant

\* the games stay silent: the waits the runs are at time out
ReplayTimedOut ==
    /\ AtWait(todo) \/ AtWait(twin.todo)
    /\ timeouts < MaxTimeouts
    /\ timeouts' = timeouts + 1
    /\ ReplayBecomes(TimedOut(Fresh), TimedOut(There))
    /\ UNCHANGED <<steps, inq, outq, game, action_history, phase, reported,
                   SCREENSHOTS_ENABLED, run_tracker, obs, aside>>

\* the drains the runs are at find the same lines queued
ReplayDrained ==
    /\ AtDrain(todo) \/ AtDrain(twin.todo)
    /\ \E q \in ReplayBacklogs :
          ReplayBecomes(DrainedOf(Fresh, q), DrainedOf(There, q))
    /\ UNCHANGED steps
    /\ TwinDormant

\* a run and its replay begin, each with what its coordinator has cached;
\* obs keeps the two caches
InitReplay ==
    /\ coord \in ResidualCaches
    /\ \E c \in ResidualCaches :
          /\ twin = [model |-> InitialModel, coord |-> c,
                     todo |-> setup \o <<Invariants>>, failure |-> None]
          /\ obs = InitialObs @@ [residual |-> <<coord, c>>]
    /\ game = [in_game |-> FALSE, pending |-> "none"]
    /\ inq = <<>>
    /\ outq = <<>>
    /\ model = InitialModel
    /\ action_history = <<>>
    /\ todo = setup \o <<Invariants>>
    /\ phase = "rules"
    /\ steps = 0
    /\ failure = None
    /\ reported = None
    /\ SCREENSHOTS_ENABLED = FALSE
    /\ run_tracker = FALSE
    /\ timeouts = 0
    /\ AsideIdle

NextReplay ==
    \/ ReplayBegin \/ ReplayAnswered \/ ReplayTimedOut \/ ReplayDrained
    \/ TwinSelectRule

SpecReplay == InitReplay /\ [][NextReplay]_vars

\* ------------------------------------------- lines without a game_state
\* _process_message on every line of the protocol, those included that
\* report in_game = true and carry no game_state (the field is optional).
\* For such a line _process_message has assigned in_game when it calls
\* Game.from_json(None, ...); Game is spirecomm's, and the call either
\* raises, which leaves _process_message with in_game assigned and
\* last_game_state untouched, or returns a Game made of nothing.  The
\* coordinator outlives the test the exception ends, so lines are processed
\* after it as before.  obs keeps the last line, the cache before it, the
\* exception it raised and the last line that assigned in_game = true.

\* the lines that report in_game = true with no game_state
BareInGameLines ==
    { Line(r, None, m, TRUE, NoGame) :
        r \in BOOLEAN, m \in {None, "message"} }

\* Game.from_json of no game_state, when it returns
GameOfNothing ==
    [present |-> TRUE, in_combat |-> FALSE, screen_type |-> "NONE",
     proceed_available |-> FALSE]

\* what Game.from_json makes of the game_state of a line
Parsed(msg) ==
    IF msg.game_state.present THEN msg.game_state ELSE GameOfNothing

\* _process_message up to the call of Game.from_json
assigned_before_from_json(c, msg) ==
    LET c1 == [c EXCEPT !.last_error = msg.error]
        c2 == IF msg.message # None
                THEN [c1 EXCEPT !.last_message = msg.message]
                ELSE c1
        c3 == [c2 EXCEPT !.game_is_ready = msg.ready_for_command]
    IN  IF c3.last_error = None
          THEN [c3 EXCEPT !.in_game = msg.in_game]
          ELSE c3

\* the reader queues a line
ParseQueued ==
    /\ Len(inq) < MaxQueue
    /\ \E msg \in AnyLines \cup BareInGameLines : inq' = Append(inq, msg)
    /\ UNCHANGED <<coord, obs>>
    /\ MsgDormant

\* the ghost fields after the line msg was taken
ParseObs(msg, raised) ==
    [processed |-> TRUE, line |-> msg, before |-> coord, raised |-> raised,
     in_game_line |-> IF msg.error = None /\ msg.in_game
                        THEN msg ELSE obs.in_game_line]

\* _process_message handles a line that has a game_state or needs none
ParseProcessed ==
    /\ inq # <<>> /\ Head(inq) \notin BareInGameLines
    /\ coord' = process_message(coord, Head(inq))
    /\ obs' = ParseObs(Head(inq), None)
    /\ inq' = Tail(inq)
    /\ MsgDormant

\* Game.from_json raises on the missing game_state
ParseFromJsonRaised ==
    /\ inq # <<>> /\ Head(inq) \in BareInGameLines
    /\ coord' = assigned_before_from_json(coord, Head(inq))
    /\ obs' = ParseObs(Head(inq), "from_json raised")
    /\ inq' = Tail(inq)
    /\ MsgDormant

\* Game.from_json returns a Game for the missing game_state
ParseFromJsonReturned ==
    /\ inq # <<>> /\ Head(inq) \in BareInGameLines
    /\ coord' = [assigned_before_from_json(coord, Head(inq)) EXCEPT
                   !.last_game_state = GameOfNothing]
    /\ obs' = ParseObs(Head(inq), None)
    /\ inq' = Tail(inq)
    /\ MsgDormant

InitParse ==
    /\ coord = NoState
    /\ obs = [processed |-> FALSE,
              line |-> Line(FALSE, None, None, FALSE, NoGame),
              before |-> NoState, raised |-> None,
              in_game_line |-> Line(FALSE, None, None, FALSE, NoGame)]
    /\ inq = <<>>
    /\ outq = <<>>
    /\ game = [in_game |-> FALSE, pending |-> "none"]
    /\ model = InitialModel
    /\ action_history = <<>>
    /\ todo = <<>>
    /\ phase = "setup"
    /\ steps = 0
    /\ failure = None
    /\ reported = None
    /\ SCREENSHOTS_ENABLED = FALSE
    /\ run_tracker = FALSE
    /\ timeouts = 0
    /\ twin = NoTwin
    /\ AsideIdle

NextParse ==
    \/ ParseQueued \/ ParseProcessed
    \/ ParseFromJsonRaised \/ ParseFromJsonReturned

SpecParse == InitParse /\ [][NextParse]_vars

\* ------------------------------------------------- the communicator singleton
\* communicator.py: initialize_communicator builds the module's singleton,
\* writes the handshake line and waits for the first ready state.  Here comm
\* is the singleton, outq the lines the process has written to its stdout,
\* inq the lines CommunicationMod has written and the process has not read,
\* results the outcome of every finished call, steps the calls of
\* initialize_communicator made.  obs keeps what the communicator did last:
\* the line it parsed or failed to parse, or a receive that timed out, and
\* the singleton as it was before.

\* the wait of initialize_communicator, in ticks (timeout=60.0)
ready_timeout == MaxBudget

\* last_state = None
NoLastState ==
    [set |-> FALSE, ready_for_command |-> FALSE, in_game |-> FALSE]

\* communicator = None
NoCommunicator ==
    [exists |-> FALSE, game_is_ready |-> FALSE, in_game |-> FALSE,
     last_state |-> NoLastState, initialized |-> FALSE]

\* GameCommunicator()
FreshCommunicator ==
    [exists |-> TRUE, game_is_ready |-> FALSE, in_game |-> FALSE,
     last_state |-> NoLastState, initialized |-> FALSE]

\* what CommunicationMod can write: a state record, or a line that is not JSON
HandshakeLines ==
    [json : BOOLEAN, ready_for_command : BOOLEAN, in_game : BOOLEAN]

\* a _parse_state that caches the error state it returns for a line that
\* is not JSON
communicator_parse_state_caches_error(c, line) ==
    IF line.json
      THEN [c EXCEPT !.game_is_ready = line.ready_for_command,
                     !.in_game = line.in_game,
                     !.last_state = [set |-> TRUE,
                                     ready_for_command |->
                                         line.ready_for_command,
                                     in_game |-> line.in_game]]
      ELSE [c EXCEPT !.game_is_ready = FALSE, !.in_game = FALSE,
                     !.last_state = [set |-> TRUE,
                                     ready_for_command |-> FALSE,
                                     in_game |-> FALSE]]

\* communicator.GameCommunicator._parse_state: a line that is not JSON
\* changes nothing
communicator_parse_state(c, line) ==
    IF line.json
      THEN [c EXCEPT !.game_is_ready = line.ready_for_command,
                     !.in_game = line.in_game,
                     !.last_state = [set |-> TRUE,
                                     ready_for_command |->
                                         line.ready_for_command,
                                     in_game |-> line.in_game]]
      ELSE c

\* what the communicator did last
Did(event, line, before) ==
    [event |-> event, line |-> line, before |-> before]

\* nothing yet
NoLine == [json |-> FALSE, ready_for_command |-> FALSE, in_game |-> FALSE]

\* the state _parse_state returns is ready
ParsedReady(line) == line.json /\ line.ready_for_command

\* the lines "ready" among those written
ReadyLines(q) == {i \in DOMAIN q : q[i] = "ready"}

HandshakeDormant ==
    UNCHANGED <<coord, game, model, action_history, todo, phase, failure,
                reported, SCREENSHOTS_ENABLED, run_tracker, timeouts,
                twin, exit_code>>

\* initialize_communicator up to its wait: the singleton that finished its
\* initialization is returned, otherwise a new one is built and signals ready
InitializeCommunicator ==
    /\ pc = "idle" /\ steps < MaxInits
    /\ steps' = steps + 1
    /\ IF comm.exists /\ comm.initialized
         THEN /\ results' = Append(results, "returned")
              /\ UNCHANGED <<comm, outq, pc, start>>
         ELSE /\ comm' = FreshCommunicator
              /\ outq' = Append(outq, "ready")
              /\ pc' = "wait_for_ready"
              /\ start' = now
              /\ UNCHANGED results
    /\ obs' = Did("initialize_communicator", NoLine, comm)
    /\ UNCHANGED <<inq, now>>
    /\ HandshakeDormant

\* wait_for_ready reads a line before its deadline
HandshakeReceived ==
    /\ pc = "wait_for_ready" /\ now - start < ready_timeout
    /\ inq # <<>>
    /\ inq' = Tail(inq)
    /\ IF ParsedReady(Head(inq))
         THEN /\ comm' = [communicator_parse_state(comm, Head(inq))
                         EXCEPT !.initialized = TRUE]
              /\ results' = Append(results, "returned")
              /\ pc' = "idle"
         ELSE /\ comm' = communicator_parse_state(comm, Head(inq))
              /\ UNCHANGED <<results, pc>>
    /\ obs' = Did(IF Head(inq).json THEN "parsed" ELSE "parse error",
                  Head(inq), comm)
    /\ UNCHANGED <<outq, steps, now, start>>
    /\ HandshakeDormant

\* wait_for_ready returns False and initialize_communicator raises
HandshakeTimedOut ==
    /\ pc = "wait_for_ready" /\ now - start >= ready_timeout
    /\ results' = Append(results, "RuntimeError")
    /\ pc' = "idle"
    /\ obs' = Did("RuntimeError", NoLine, comm)
    /\ UNCHANGED <<comm, inq, outq, steps, now, start>>
    /\ HandshakeDormant

\* no line arrives during a receive_state(timeout=1.0) of the wait: it
\* returns None after its tick
HandshakeTick ==
    /\ pc = "wait_for_ready" /\ now - start < ready_timeout
    /\ inq = <<>>
    /\ now' = now + 1
    /\ obs' = Did("receive timed out", NoLine, comm)
    /\ UNCHANGED <<comm, inq, outq, steps, results, pc, start>>
    /\ HandshakeDormant

\* CommunicationMod writes a line
HandshakeLineQueued ==
    /\ Len(inq) < MaxQueue
    /\ \E line \in HandshakeLines : inq' = Append(inq, line)
    /\ UNCHANGED <<comm, outq, steps, results, pc, now, start, obs>>
    /\ HandshakeDormant

\* get_communicator is called between two calls of initialize_communicator:
\* it returns the singleton unless there is none
GetCommunicator ==
    /\ pc = "idle"
    /\ \A i \in {Len(results)} \cap DOMAIN results :
          results[i] \notin {"got", "not initialized"}
    /\ results' = Append(results, IF comm.exists THEN "got"
                                  ELSE "not initialized")
    /\ obs' = Did("get_communicator", NoLine, comm)
    /\ UNCHANGED <<comm, inq, outq, steps, pc, now, start>>
    /\ HandshakeDormant

\* the process starts: no singleton, nothing written
InitHandshake ==
    /\ comm = NoCommunicator
    /\ pc = "idle"
    /\ steps = 0
    /\ results = <<>>
    /\ now = 0
    /\ start = 0
    /\ inq = <<>>
    /\ outq = <<>>
    /\ exit_code = Running
    /\ coord = NoState
    /\ obs = Did("none", NoLine, NoCommunicator)
    /\ action_history = <<>>
    /\ game = [in_game |-> FALSE, pending |-> "none"]
    /\ model = InitialModel
    /\ todo = <<>>
    /\ phase = "rules"
    /\ failure = None
    /\ reported = None
    /\ SCREENSHOTS_ENABLED = FALSE
    /\ run_tracker = FALSE
    /\ timeouts = 0
    /\ twin = NoTwin

NextHandshake ==
    \/ InitializeCommunicator
    \/ HandshakeReceived
    \/ HandshakeTimedOut
    \/ HandshakeTick
    \/ HandshakeLineQueued
    \/ GetCommunicator

SpecHandshake == InitHandshake /\ [][NextHandshake]_vars

\* --------------------------------------------- timeouts and their handlers
\* exploratory_agent.py: ExploratoryAgent.send_command sends a command and
\* awaits the ready flag inside try / except Exception.  Here results holds
\* what the calls returned, failure the exception that left a call, obs the
\* AgentState the handler writes to, timeouts the timeouts raised, steps the
\* calls made.

\* the base class each exception class is declared with
Bases ==
    [GameTimeout |-> "Exception", VisualStabilityTimeout |-> "Exception",
     Exception |-> "BaseException", BaseException |-> "object"]

\* issubclass(cls, base)
RECURSIVE IsSubclass(_, _)
IsSubclass(cls, base) ==
    \/ cls = base
    \/ cls \in DOMAIN Bases /\ IsSubclass(Bases[cls], base)

\* an except clause for handler catches an exception of class raised
Catches(handler, raised) == IsSubclass(raised, handler)

\* the commands the agent sends
AgentCommands == {<<"state">>, <<"abandon">>}

\* AgentState.add_finding
add_finding(st, severity, category) ==
    [st EXCEPT !.findings = Append(@, [severity |-> severity,
                                        category |-> category]),
               !.errors_encountered =
                   IF severity \in {"crash", "error"} THEN @ + 1 ELSE @]

CommandDormant ==
    UNCHANGED <<game, model, todo, phase, reported, SCREENSHOTS_ENABLED,
                run_tracker, twin, comm, exit_code>>

\* send_command up to its wait: the action is recorded and the line sent
CommandSent ==
    /\ pc = "idle" /\ steps < MaxCommands /\ outq = <<>>
    /\ \E cmd \in AgentCommands, expect_ready \in BOOLEAN, T \in 1..MaxBudget :
          /\ action_history' = add_action(action_history, cmd)
          /\ outq' = Append(outq, cmd)
          /\ coord' = send_message(coord)
          /\ IF expect_ready
               THEN /\ pc' = "wait_for_ready"
                    /\ start' = [at |-> now, timeout |-> T]
                    /\ UNCHANGED results
               ELSE /\ results' = Append(results, TRUE)
                    /\ UNCHANGED <<pc, start>>
    /\ steps' = steps + 1
    /\ UNCHANGED <<inq, failure, obs, timeouts, now>>
    /\ CommandDormant

\* wait_for_ready finds the ready flag set: send_command returns True
CommandReturned ==
    /\ pc = "wait_for_ready" /\ coord.game_is_ready
    /\ results' = Append(results, TRUE)
    /\ pc' = "idle"
    /\ UNCHANGED <<coord, inq, outq, action_history, steps, failure, obs,
                   timeouts, now, start>>
    /\ CommandDormant

\* wait_for_ready processes a line
CommandLineProcessed ==
    /\ pc = "wait_for_ready" /\ ~coord.game_is_ready
    /\ start.timeout - (now - start.at) > 0
    /\ inq # <<>>
    /\ coord' = process_message(coord, Head(inq))
    /\ inq' = Tail(inq)
    /\ UNCHANGED <<outq, action_history, steps, failure, obs, timeouts,
                   results, pc, now, start>>
    /\ CommandDormant

\* time passes while wait_for_ready polls an empty queue
CommandTick ==
    /\ pc = "wait_for_ready" /\ ~coord.game_is_ready
    /\ start.timeout - (now - start.at) > 0
    /\ inq = <<>>
    /\ now' = now + 1
    /\ UNCHANGED <<coord, inq, outq, action_history, steps, failure, obs,
                   timeouts, results, pc, start>>
    /\ CommandDormant

\* wait_for_ready raises GameTimeout; the handler of send_command records
\* a finding and returns False when it catches the exception, otherwise
\* the exception leaves send_command
CommandTimedOut ==
    /\ pc = "wait_for_ready" /\ ~coord.game_is_ready
    /\ start.timeout - (now - start.at) <= 0
    /\ timeouts' = timeouts + 1
    /\ IF Catches("Exception", "GameTimeout")
         THEN /\ obs' = add_finding(obs, "error", "command_failure")
              /\ results' = Append(results, FALSE)
              /\ pc' = "idle"
              /\ UNCHANGED failure
         ELSE /\ failure' = "GameTimeout"
              /\ pc' = "raised"
              /\ UNCHANGED <<obs, results>>
    /\ UNCHANGED <<coord, inq, outq, action_history, steps, now, start>>
    /\ CommandDormant

\* the game reads the command and may answer it, ready or not
CommandAnswered ==
    /\ outq # <<>>
    /\ outq' = Tail(outq)
    /\ \/ UNCHANGED inq
       \/ /\ Len(inq) < MaxQueue
          /\ \E r \in BOOLEAN :
                inq' = Append(inq, Line(r, None, None, FALSE, NoGame))
    /\ UNCHANGED <<coord, action_history, steps, failure, obs, timeouts,
                   results, pc, now, start>>
    /\ CommandDormant

\* the agent before its first command
InitCommand ==
    /\ pc = "idle"
    /\ steps = 0
    /\ results = <<>>
    /\ failure = None
    /\ timeouts = 0
    /\ obs = [findings |-> <<>>, errors_encountered |-> 0]
    /\ action_history = <<>>
    /\ coord = [NoState EXCEPT !.game_is_ready = TRUE]
    /\ inq = <<>>
    /\ outq = <<>>
    /\ now = 0
    /\ start = [at |-> 0, timeout |-> 0]
    /\ comm = NewCommunicator
    /\ exit_code = Running
    /\ game = [in_game |-> FALSE, pending |-> "none"]
    /\ model = InitialModel
    /\ todo = <<>>
    /\ phase = "rules"
    /\ reported = None
    /\ SCREENSHOTS_ENABLED = FALSE
    /\ run_tracker = FALSE
    /\ twin = NoTwin

NextCommand ==
    \/ CommandSent
    \/ CommandReturned
    \/ CommandLineProcessed
    \/ CommandTick
    \/ CommandTimedOut
    \/ CommandAnswered

SpecCommand == InitCommand /\ [][NextCommand]_vars

\* ------------------------------------- the three machines, rule by rule
\* The models of ArenaStateMachine, ArenaCombatMachine and
\* ArenaTransitionMachine as the engine sees them between rules: pc is the
\* machine, model its model fields, steps the rules executed, failure the
\* exception that ended the run.  What a rule reads from the game (in_game,
\* in_combat, proceed_available) is any value; a wait that times out or an
\* invariant that fails raises before the rule writes to the model.

\* settings(stateful_step_count=8) of the three machines
stateful_step_count == 8

Machines ==
    {"ArenaStateMachine", "ArenaCombatMachine", "ArenaTransitionMachine"}

\* the models a rule of ArenaStateMachine can leave when it returns
state_machine_outcomes(r, m) ==
    CASE r.name = "start_arena_fight" ->
            {ApplyModel(m, [model_in_game |-> TRUE, model_is_arena |-> TRUE,
                            model_character |-> r.character,
                            model_encounter |-> r.encounter,
                            model_in_combat |-> TRUE,
                            model_combat_ended |-> FALSE])}
      [] r.name = "start_normal_run" ->
            {ApplyModel(m, [model_in_game |-> TRUE, model_is_arena |-> FALSE,
                            model_character |-> r.character,
                            model_encounter |-> None,
                            model_in_combat |-> FALSE,
                            model_combat_ended |-> FALSE])}
      [] r.name = "abandon_run" -> {InitialModel}
      [] r.name \in {"win_combat", "lose_combat"} ->
            {ApplyModel(m, [model_in_combat |-> FALSE])}
            \cup IF m.model_is_arena
                   THEN {ApplyModel(m, [model_in_game |-> FALSE,
                                        model_in_combat |-> FALSE,
                                        model_combat_ended |-> FALSE])}
                   ELSE {ApplyModel(m, [model_in_game |-> FALSE,
                                        model_in_combat |-> FALSE,
                                        model_combat_ended |-> FALSE]),
                         ApplyModel(m, [model_in_combat |-> FALSE,
                                        model_combat_ended |-> TRUE]),
                         m}
      [] r.name = "proceed_after_combat" ->
            IF m.model_is_arena
              THEN {ApplyModel(m, [model_in_game |-> FALSE,
                                   model_combat_ended |-> FALSE]), m}
              ELSE {ApplyModel(m, [model_in_game |-> FALSE]),
                    ApplyModel(m, [model_combat_ended |-> FALSE]), m}

\* ArenaCombatMachine.setup
InitialCombatModel == [in_combat |-> FALSE, wins |-> 0, losses |-> 0]

\* the rules of ArenaCombatMachine
CombatRules ==
    { [name |-> "start_fight", character |-> ch, encounter |-> e,
       seed |-> sd] : ch \in CHARACTERS, e \in ENCOUNTERS, sd \in SEEDS }
    \cup { [name |-> n] : n \in {"win", "lose"} }

\* the @precondition of each rule of ArenaCombatMachine
CombatPrecondition(r, m) ==
    CASE r.name = "start_fight" -> ~m.in_combat
      [] r.name \in {"win", "lose"} -> m.in_combat

\* the models a rule of ArenaCombatMachine can leave when it returns
combat_machine_outcomes(r, m) ==
    CASE r.name = "start_fight" -> {[m EXCEPT !.in_combat = TRUE]}
      [] r.name = "win" ->
            {[m EXCEPT !.in_combat = FALSE],
             [m EXCEPT !.wins = @ + 1, !.in_combat = FALSE]}
      [] r.name = "lose" ->
            {[m EXCEPT !.in_combat = FALSE],
             [m EXCEPT !.losses = @ + 1, !.in_combat = FALSE]}

\* ArenaTransitionMachine.setup
InitialTransitionModel ==
    [at_menu |-> TRUE, fights_started |-> 0, fights_won |-> 0,
     fights_lost |-> 0, fights_abandoned |-> 0]

\* the rules of ArenaTransitionMachine
TransitionRules ==
    { [name |-> "start_fight", character |-> ch, encounter |-> e,
       seed |-> sd] : ch \in CHARACTERS, e \in ENCOUNTERS, sd \in SEEDS }
    \cup { [name |-> n] : n \in {"win_fight", "lose_fight", "abandon_fight"} }

\* a start_fight that is eligible during a fight like the other rules
transition_precondition_in_fight(r, m) == ~m.at_menu

\* the @precondition of each rule of ArenaTransitionMachine
TransitionPrecondition(r, m) ==
    CASE r.name = "start_fight" -> m.at_menu
      [] OTHER -> ~m.at_menu

\* a start_fight that does not count the fight it starts
transition_machine_outcome_uncounted_start(r, m) ==
    CASE r.name = "start_fight" -> [m EXCEPT !.at_menu = FALSE]
      [] r.name = "win_fight" ->
            [m EXCEPT !.at_menu = TRUE, !.fights_won = @ + 1]
      [] r.name = "lose_fight" ->
            [m EXCEPT !.at_menu = TRUE, !.fights_lost = @ + 1]
      [] r.name = "abandon_fight" ->
            [m EXCEPT !.at_menu = TRUE, !.fights_abandoned = @ + 1]

\* the model a rule of ArenaTransitionMachine leaves when it returns
transition_machine_outcome(r, m) ==
    CASE r.name = "start_fight" ->
            [m EXCEPT !.at_menu = FALSE, !.fights_started = @ + 1]
      [] r.name = "win_fight" ->
            [m EXCEPT !.at_menu = TRUE, !.fights_won = @ + 1]
      [] r.name = "lose_fight" ->
            [m EXCEPT !.at_menu = TRUE, !.fights_lost = @ + 1]
      [] r.name = "abandon_fight" ->
            [m EXCEPT !.at_menu = TRUE, !.fights_abandoned = @ + 1]

\* the rules of the machine whose preconditions hold on its model
Eligible(machine, m) ==
    CASE machine = "ArenaStateMachine" ->
            {r \in Rules : Precondition(r, m)}
      [] machine = "ArenaCombatMachine" ->
            {r \in CombatRules : CombatPrecondition(r, m)}
      [] machine = "ArenaTransitionMachine" ->
            {r \in TransitionRules : TransitionPrecondition(r, m)}

\* the engine has another step to make in this run
Stepping == steps < stateful_step_count /\ failure = None

MachineDormant ==
    UNCHANGED <<coord, inq, outq, game, action_history, todo, phase,
                reported, SCREENSHOTS_ENABLED, run_tracker, timeouts, obs,
                twin, comm, results, exit_code, pc, now, start>>

\* a rule of ArenaStateMachine is selected and returns
StateMachineRule ==
    /\ pc = "ArenaStateMachine" /\ Stepping
    /\ \E r \in Eligible(pc, model) :
          model' \in state_machine_outcomes(r, model)
    /\ steps' = steps + 1
    /\ UNCHANGED failure
    /\ MachineDormant

\* a rule of ArenaCombatMachine is selected and returns
CombatMachineRule ==
    /\ pc = "ArenaCombatMachine" /\ Stepping
    /\ \E r \in Eligible(pc, model) :
          model' \in combat_machine_outcomes(r, model)
    /\ steps' = steps + 1
    /\ UNCHANGED failure
    /\ MachineDormant

\* a rule of ArenaTransitionMachine is selected and returns
TransitionMachineRule ==
    /\ pc = "ArenaTransitionMachine" /\ Stepping
    /\ \E r \in Eligible(pc, model) :
          model' = transition_machine_outcome(r, model)
    /\ steps' = steps + 1
    /\ UNCHANGED failure
    /\ MachineDormant

\* the models a rule of the machine can leave when it returns
Outcomes(machine, r, m) ==
    CASE machine = "ArenaStateMachine" -> state_machine_outcomes(r, m)
      [] machine = "ArenaCombatMachine" -> combat_machine_outcomes(r, m)
      [] machine = "ArenaTransitionMachine" ->
            {transition_machine_outcome(r, m)}

\* the run ends with an exception: the selected rule raises in a wait,
\* before it writes to the model, or _screenshot_step or an invariant
\* raises after the rule has written to it
MachineRuleRaised ==
    /\ Stepping
    /\ \E r \in Eligible(pc, model) :
          model' \in {model} \cup Outcomes(pc, r, model)
    /\ failure' \in {"GameTimeout", "AssertionError"}
    /\ steps' = steps + 1
    /\ MachineDormant

\* setup has returned
InitMachines ==
    /\ pc \in Machines
    /\ model = CASE pc = "ArenaStateMachine" -> InitialModel
                 [] pc = "ArenaCombatMachine" -> InitialCombatModel
                 [] pc = "ArenaTransitionMachine" -> InitialTransitionModel
    /\ steps = 0
    /\ failure = None
    /\ coord = NoState
    /\ inq = <<>>
    /\ outq = <<>>
    /\ game = [in_game |-> FALSE, pending |-> "none"]
    /\ action_history = <<>>
    /\ todo = <<>>
    /\ phase = "rules"
    /\ reported = None
    /\ SCREENSHOTS_ENABLED = FALSE
    /\ run_tracker = FALSE
    /\ timeouts = 0
    /\ obs = InitialObs
    /\ twin = NoTwin
    /\ comm = NewCommunicator
    /\ results = <<>>
    /\ exit_code = Running
    /\ now = 0
    /\ start = 0

NextMachines ==
    \/ StateMachineRule
    \/ CombatMachineRule
    \/ TransitionMachineRule
    \/ MachineRuleRaised

SpecMachines == InitMachines /\ [][NextMachines]_vars

\* ---------------------------------------------------------------- properties

WaitForReadyNeedsReadyLineAfterSend ==
    \A e \in obs.events :
       e.what = "wait_for_ready returned"
         => e.ready_since_send /\ e.coord.game_is_ready

\* C2 happens: inside a rule, where the flag is still set from the previous
\* answer when the command is sent, wait_for_ready has returned
WaitForReadyReturnedInRule ==
    \E e \in obs.events :
       /\ e.what = "wait_for_ready returned" /\ e.phase = "rules"
       /\ e.ready_since_send

\* the first rule of the run is start_normal_run
FirstRuleIsStartNormalRun ==
    /\ steps = 1 /\ Len(action_history) >= 1
    /\ action_history[1][1] = "start"

ForbiddenScreenDuringStepFailsRun ==
    \A e \in obs.events :
       (e.what = "invariants hold" /\ e.phase = "rules")
         => ~e.forbidden_seen

\* C7: wait_for_in_game and wait_for_combat return normally only when the
\* answer they waited for carries no error; an error answer makes them
\* raise whatever in_game value is cached.
DelegatedWaitRaisesOnErrorAnswer ==
    \A e \in obs.events :
       e.what \in {"wait_for_in_game returned", "wait_for_combat returned"}
         => e.coord.last_error = None

\* C8: whenever ensure_main_menu returns normally the game itself is at the
\* main menu, whatever was queued or answered on the way.
EnsureMainMenuLeavesGameAtMenu ==
    \A e \in obs.events :
       e.what = "ensure_main_menu returned" => ~e.game_in_game

\* C9: when a run is over, teardown has invoked ensure_main_menu, and the
\* exception that leaves the run is the one that ended the rules, if any:
\* a failure of teardown never replaces it.
TeardownRestoresAndKeepsFailure ==
    phase = "done"
      => /\ obs.teardown_ensure
         /\ failure # None => reported = failure

\* C10: in the rules and the wait helpers they call no command is written
\* while an earlier command of the run is unanswered: none is written while
\* the game has yet to read an earlier one, or before a ready line has
\* followed the last one.
CommandsAreSentThenAwaited ==
    \A e \in obs.events : e.what # "sent before answer"

\* C4: two runs that execute the same rules with the same arguments, each
\* against its own game, end every step that both complete with identical
\* model fields.
ModelIsFunctionOfRulesOnly ==
    (/\ todo = <<>> /\ twin.todo = <<>>
     /\ failure = None /\ twin.failure = None)
      => model = twin.model

\* C6 as stated: after a line is processed every cached field is the
\* line's; none keeps the value of an earlier line.
CacheReplacedWholesale ==
    obs.processed
      => /\ coord.game_is_ready = obs.line.ready_for_command
         /\ coord.in_game = obs.line.in_game
         /\ coord.last_error = obs.line.error
         /\ coord.last_message = obs.line.message
         /\ coord.last_game_state = obs.line.game_state

\* C6, amended: after a line is processed game_is_ready and last_error are
\* the line's; last_message is the line's when the line carries one, in_game
\* is the line's when the line carries no error, last_game_state is the
\* line's when the line carries no error and reports in_game; each of these
\* three otherwise keeps the value it had before the line.
CacheUpdatedFieldByField ==
    obs.processed
      => /\ coord.game_is_ready = obs.line.ready_for_command
         /\ coord.last_error = obs.line.error
         /\ coord.last_message =
               IF obs.line.message # None THEN obs.line.message
               ELSE obs.before.last_message
         /\ coord.in_game =
               IF obs.line.error = None THEN obs.line.in_game
               ELSE obs.before.in_game
         /\ coord.last_game_state =
               IF obs.line.error = None /\ obs.line.in_game
                 THEN obs.line.game_state
               ELSE obs.before.last_game_state

\* C6 happens: an error line with no message was processed, and the cache
\* mixes its error with in_game, last_message and last_game_state of
\* earlier lines
CacheMixesTwoLines ==
    /\ obs.processed
    /\ obs.line.error # None /\ obs.line.message = None
    /\ coord.last_error = obs.line.error
    /\ coord.in_game # obs.line.in_game
    /\ coord.last_message # None
    /\ coord.last_game_state # obs.line.game_state

\* the entry of the action trace starts a session
StartsSession(entry) == entry[1] \in {"arena", "start"}

\* C20: a rule is executed only where its precondition holds on the model:
\* in the rules `arena` and `start` are sent only while model_in_game is
\* false, `abandon` only while it is true, `win` and `lose` only while
\* model_in_game and model_in_combat are both true; and the action trace
\* never holds two session-starting commands one after the other.
CommandsSentOnlyUnderPrecondition ==
    /\ \A e \in obs.events :
          (e.what = "sent" /\ e.phase = "rules")
            => /\ StartsSession(e.last_sent) => ~e.model.model_in_game
               /\ e.last_sent[1] = "abandon" => e.model.model_in_game
               /\ e.last_sent[1] \in {"win", "lose"}
                     => e.model.model_in_game /\ e.model.model_in_combat
    /\ \A i \in 1..(Len(action_history) - 1) :
          ~(StartsSession(action_history[i])
            /\ StartsSession(action_history[i + 1]))

\* C20 happens: the second rule of a run sends `win` or `lose`, after a rule
\* that started a fight and set model_in_game and model_in_combat
CombatVerbSentAfterFightStarted ==
    \E e \in obs.events :
       /\ e.what = "sent" /\ e.phase = "rules"
       /\ e.last_sent[1] \in {"win", "lose"}
       /\ e.model.model_in_game /\ e.model.model_in_combat
       /\ steps = 2

VisualStableWaitTimedOut ==
    \E e \in obs.events :
       /\ e.what = "wait_for_ready timed out"
       /\ e.last_sent = <<"wait_for", "visual_stable">>

\* a GameTimeout was raised in this step of the thread
GameTimeoutRaised ==
    \E e \in obs.events :
       e.what \in {"GameTimeout", "wait_for_ready timed out"}

\* C17: main-menu recovery is bounded.  _ensure_main_menu begins at most 3
\* attempts (max_retries + 1 with the default max_retries = 2) and sends
\* `state` once in each; every attempt after the first follows a retry, and
\* a retry is made only where a GameTimeout was raised; when _ensure_main_menu ends with
\* GameTimeout it has made all 3 attempts; any other exception ends it in
\* the attempt that raised it.  The ensure_main_menu of the stateful tests
\* sends `state` at most twice, and when its wait for the answer to a
\* `state` request leaves it with GameTimeout it has sent `state` twice.
RecoveryIsBounded ==
    /\ obs.attempts <= 3
    /\ pc = "_ensure_main_menu" => obs.state_requests <= obs.attempts
    /\ pc = "ensure_main_menu" => obs.state_requests <= 2
    /\ obs.attempts <= obs.retries + 1
    /\ \A e \in obs.events : e.what = "retrying" => GameTimeoutRaised
    /\ (pc = "_ensure_main_menu" /\ reported = "GameTimeout")
          => obs.attempts = 3
    /\ (pc = "_ensure_main_menu"
        /\ reported \in {"VisualStabilityTimeout", "AssertionError"})
          => \A e \in obs.events : e.what \notin {"retrying", "attempt"}
    /\ (pc = "ensure_main_menu" /\ reported = "GameTimeout"
        /\ obs.last_sent = <<"state">>)
          => obs.state_requests = 2

\* C17 happens: three attempts of _ensure_main_menu ended with GameTimeout
\* and the last one was raised again
AllAttemptsTimedOut ==
    /\ pc = "_ensure_main_menu" /\ phase = "done"
    /\ reported = "GameTimeout" /\ obs.attempts = 3
    /\ GameTimeoutRaised

\* C17 happens for the stateful routine: both `state` requests of
\* ensure_main_menu timed out
BothStateRequestsTimedOut ==
    /\ pc = "ensure_main_menu" /\ phase = "done"
    /\ reported = "GameTimeout" /\ obs.state_requests = 2
    /\ timeouts = 2

RECURSIVE AppliedInOrder(_, _, _)
AppliedInOrder(c, q, k) ==
    IF k = 0 THEN c
    ELSE process_message(AppliedInOrder(c, q, k - 1), q[k])

DrainFoundQueueEmpty ==
    /\ obs.drained /\ obs.max_drain > 0 /\ obs.queued = <<>>
    /\ obs.count = 0

\* C14: an inbound line that is not JSON is reported as data and never
\* raised: after the wait loop has taken such a line no exception has left
\* _process_message, the loop is still running, and the cached state
\* reports the failure in last_error.
MalformedLineReportedNotRaised ==
    obs.rejected => (obs.raised = None /\ coord.last_error # None)

\* C11: send_command clears the ready flag before the command line is
\* written and flushed: wherever the line of a command has been flushed and
\* send_command has not yet returned, game_is_ready is already false.
FlagClearedBeforeCommandVisible ==
    pc.at = "clear" => ~comm.game_is_ready

\* C19: the process exits with code 0 only if every test it started
\* passed; when a test is recorded as failed, or the first wait for
\* readiness timed out, it exits with a non-zero code.
ExitCodeZeroOnlyIfAllPassed ==
    exit_code # Running
      => (exit_code = 0
            <=> /\ results # <<>>
                /\ \A i \in 1..Len(results) : results[i].passed)

\* the wait has ended and the game never wrote a ready line
EndedNeverReady(kind) ==
    pc.kind = kind /\ pc.at = "done" /\ ~obs.ready_sent

\* C12 as stated: every wait_for_ready with a timeout, against a game that
\* never reports ready, ends by raising GameTimeout, and each of its polls
\* is bounded by min(1 second, remaining budget).
WaitForReadyRaisesGameTimeout ==
    /\ [](pc.kind \in TimedLoops /\ pc.at = "done" /\ ~obs.ready_sent
            => obs.outcome = "GameTimeout")
    /\ [](pc.kind \in TimedLoops /\ pc.at = "poll"
            => obs.poll = Min(Sec, obs.remaining))
    /\ (pc.kind \in TimedLoops ~> pc.at = "done")

\* C12, amended: against a game that never reports ready, also when lines
\* that are not ready keep arriving, both wait_for_ready loops terminate, and
\* only once the whole timeout T has elapsed, never because one poll timed
\* out.  conftest.wait_for_ready raises GameTimeout exactly when T has
\* elapsed, each poll bounded by min(1 second, remaining);
\* GameCommunicator.wait_for_ready returns False, each poll bounded by
\* 1 second whatever remains, so it ends less than 1 second after T.
WaitForReadyEndsOnBudget ==
    /\ [](EndedNeverReady("conftest.wait_for_ready")
            => /\ obs.outcome = "GameTimeout"
               /\ obs.ended - start = obs.timeout)
    /\ [](EndedNeverReady("GameCommunicator.wait_for_ready")
            => /\ obs.outcome = "False"
               /\ obs.ended - start >= obs.timeout
               /\ obs.ended - start < obs.timeout + Sec)
    /\ [](pc.kind = "conftest.wait_for_ready" /\ pc.at = "poll"
            => /\ obs.poll = Min(Sec, obs.remaining)
               /\ obs.deadline <= start + obs.timeout)
    /\ [](pc.kind = "GameCommunicator.wait_for_ready" /\ pc.at = "poll"
            => /\ obs.poll = Sec
               /\ obs.deadline < start + obs.timeout + Sec)
    /\ [][pc.kind \in TimedLoops /\ pc.at = "poll" /\ pc'.at = "done"
            => obs'.ready_sent]_vars
    /\ (pc.kind \in TimedLoops ~> pc.at = "done")

\* conftest.wait_for_ready raised GameTimeout after more than one poll,
\* having received lines that were not ready
GameTimeoutWhileLinesKeptArriving ==
    /\ EndedNeverReady("conftest.wait_for_ready")
    /\ obs.outcome = "GameTimeout"
    /\ obs.timeout > Sec
    /\ obs.received >= 2

\* GameCommunicator.wait_for_ready returned False later than its timeout
ReturnedFalseAfterTheBudget ==
    /\ EndedNeverReady("GameCommunicator.wait_for_ready")
    /\ obs.outcome = "False"
    /\ obs.ended - start > obs.timeout

\* C13: every loop that waits for the game polls with a finite timeout and
\* terminates, also when the game never writes another line.
EveryWaitTerminates ==
    /\ [](pc.at = "poll" => obs.deadline # NoDeadline)
    /\ <>(pc.at = "done")

\* the loops that are called with a timeout do terminate
TimedWaitsTerminate == pc.kind \in TimedLoops ~> pc.at = "done"

\* C21: every command a rule sends is recorded in the action trace as it was
\* sent: in the step that sends a command in a rule, the last entry of the
\* trace is that command, verb and arguments.
EverySentCommandIsLastTraceEntry ==
    \A e \in obs.events :
       (e.what = "sent" /\ e.phase = "rules")
         => /\ action_history # <<>>
            /\ action_history[Len(action_history)] = e.last_sent

\* C22: the action trace is append-only: whenever an action is recorded the
\* list grows by one entry at its end, and the entries it held before are
\* still there, in the same places and unchanged.
TraceIsAppendOnly ==
    [][action_history' # action_history
         => /\ Len(action_history') = Len(action_history) + 1
            /\ SubSeq(action_history', 1, Len(action_history))
                 = action_history]_vars

\* C23: a run and its replay, executing the same rules against games that
\* behave the same, go through the same model states: after setup and after
\* every step the two models are equal, and the two runs are at the same
\* statement and have failed, or not, alike.
ReplayReproducesModel ==
    /\ model = twin.model
    /\ steps >= 1 => failure = twin.failure /\ todo = twin.todo

\* C23 happens: the two coordinators began with different cached game
\* states, and both runs have started an arena fight and ended it with
\* win_combat or lose_combat, which read the cached game state
ReplayedFightFromDifferentCaches ==
    /\ obs.residual[1].last_game_state # obs.residual[2].last_game_state
    /\ steps = 2 /\ todo = <<>> /\ twin.todo = <<>>
    /\ failure = None /\ twin.failure = None
    /\ model.model_is_arena /\ ~model.model_in_game

\* C24: a processed line that carries an error leaves the cached in_game and
\* last_game_state as they were before the line; it updates last_error,
\* the ready flag and, when it has one, the message.  A command refused
\* with an error while the cache says main menu leaves in_game false.
ErrorLineKeepsGameFields ==
    (obs.processed /\ obs.line.error # None)
      => /\ coord.in_game = obs.before.in_game
         /\ coord.last_game_state = obs.before.last_game_state
         /\ coord.last_error = obs.line.error
         /\ coord.game_is_ready = obs.line.ready_for_command
         /\ obs.line.message # None => coord.last_message = obs.line.message
         /\ ~obs.before.in_game => ~coord.in_game

\* C24 happens: at the main menu an error line that itself says in_game,
\* with a game state, was processed, and the cache still says main menu
\* and holds no game state
ErrorLineAtMenuProcessed ==
    /\ obs.processed /\ obs.line.error # None
    /\ obs.line.in_game /\ obs.line.game_state.present
    /\ ~obs.before.in_game /\ ~obs.before.last_game_state.present
    /\ ~coord.in_game /\ ~coord.last_game_state.present

\* C25: whenever the cached in_game is true, last_game_state is not None
\* and is the game state parsed from the line that last assigned
\* in_game = true (a later line that assigns last_game_state assigns
\* in_game = true as well).
InGameHasGameStateOfItsLine ==
    coord.in_game
      => /\ coord.last_game_state.present
         /\ coord.last_game_state = Parsed(obs.in_game_line)

\* while every line that reports in_game carries a game_state, a cached
\* in_game = true comes with a game state
CachedInGameHasGameState == coord.in_game => coord.last_game_state.present

\* C26: over any sequence of initialize_communicator calls, calls made after
\* an initialization that timed out included, the process writes the bare
\* line "ready" at most once
ReadyWrittenAtMostOnce == Cardinality(ReadyLines(outq)) <= 1

\* "ready" was written at most once more than initializations have timed out
ReadyWrittenOncePerTimeout ==
    Cardinality(ReadyLines(outq))
      <= 1 + Cardinality({i \in DOMAIN results : results[i] = "RuntimeError"})

\* C27: the bridges run before "ready" is written, so the first state line
\* the game writes after "ready" is delivered to the test process: once
\* the first ready line has been read from the game, the coordinator of the
\* test process has processed a line
FirstStateReachesTheTestProcess == pc.site # "main" => coord # NoState

\* C28: GameTimeout and VisualStabilityTimeout are not caught by handlers
\* for ordinary exceptions: a timeout raised while a command is awaited
\* leaves send_command, and is recorded neither as a returned False nor as
\* a finding
TimeoutsEscapeExceptException ==
    timeouts > 0
      => /\ failure = "GameTimeout"
         /\ obs.findings = <<>>
         /\ \A i \in DOMAIN results : results[i]

\* the two timeout classes are outside Exception
TimeoutClassesOutsideException ==
    /\ ~Catches("Exception", "GameTimeout")
    /\ ~Catches("Exception", "VisualStabilityTimeout")

\* a timed-out command was absorbed: send_command returned False and left a
\* command_failure finding
TimeoutAbsorbedAsFinding ==
    /\ timeouts > 0 /\ failure = None
    /\ obs.findings # <<>>
    /\ \E i \in DOMAIN results : ~results[i]

\* the thread is in the normal-run branch of win_combat or lose_combat: what
\* is left of that branch is the next thing it will do
InNormalRunBranch ==
    \E i \in DOMAIN todo :
       /\ todo[i].op = "if" /\ todo[i].cond = "not in_game"
       /\ todo[i].else # <<>>
       /\ todo[i].else[1].op = "if"
       /\ todo[i].else[1].cond = "game not in_combat"

\* C29: in ArenaStateMachine model_in_combat is true only where
\* model_is_arena and model_in_game are true, the normal-run branches of
\* win_combat and lose_combat are never taken, model_combat_ended is never
\* true and proceed_after_combat is never eligible
CombatOnlyInArenaFights ==
    /\ model.model_in_combat
         => model.model_is_arena /\ model.model_in_game
    /\ ~InNormalRunBranch
    /\ ~model.model_combat_ended
    /\ ~Precondition([name |-> "proceed_after_combat"], model)

\* win_combat or lose_combat has sent its command in an arena fight, taken
\* the arena branch and left the model at the menu
ArenaFightWonOrLost ==
    /\ phase = "rules" /\ todo = <<>> /\ failure = None
    /\ model.model_is_arena /\ ~model.model_in_game
    /\ action_history # <<>>
    /\ action_history[Len(action_history)][1] \in {"win", "lose"}

\* a normal run is active and no rule is running
NormalRunActive ==
    /\ phase = "rules" /\ todo = <<>> /\ failure = None
    /\ model.model_in_game /\ ~model.model_is_arena

\* C30: in each of the three machines every model state reachable from
\* setup has a rule whose precondition holds, so that rule selection is not
\* stuck while the run has steps left
SomeRuleIsEligible == Eligible(pc, model) # {}

\* a run of ArenaTransitionMachine has used up its step budget, every step
\* a rule, and has been both at the menu and in a fight
TransitionRunUsedItsBudget ==
    /\ pc = "ArenaTransitionMachine"
    /\ steps = stateful_step_count /\ failure = None
    /\ model.fights_won > 0 /\ model.fights_abandoned > 0

\* C31: in every reachable model state of ArenaStateMachine, model_is_arena
\* implies that model_character and model_encounter are both set
ArenaModelNamesItsFight ==
    model.model_is_arena
      => model.model_character # None /\ model.model_encounter # None

\* an arena fight has been started and the rule has returned
ArenaFightStarted ==
    /\ phase = "rules" /\ todo = <<>> /\ failure = None
    /\ model.model_is_arena /\ model.model_in_game /\ model.model_in_combat
    /\ model.model_character \in CHARACTERS
    /\ model.model_encounter \in ENCOUNTERS

\* the outcomes ArenaTransitionMachine has recorded
FightOutcomes(m) == m.fights_won + m.fights_lost + m.fights_abandoned

\* C32: in ArenaTransitionMachine, after every rule that completes, the
\* outcomes recorded equal fights_started at the menu and fights_started - 1
\* in a fight, so that they never exceed the fights started
FightCountsFollowAtMenu ==
    pc = "ArenaTransitionMachine"
      => /\ FightOutcomes(model)
              = IF model.at_menu THEN model.fights_started
                                 ELSE model.fights_started - 1
         /\ FightOutcomes(model) <= model.fights_started

\* a second fight is running after a fight that was lost
SecondFightAfterALoss ==
    /\ pc = "ArenaTransitionMachine" /\ failure = None
    /\ ~model.at_menu
    /\ model.fights_started = 2 /\ model.fights_lost = 1

\* C33: abandon_run returns True only if the communicator was out of game
\* at the call or a line received after `abandon` reported in_game = false:
\* when the abandon_command test has passed, the last line the communicator
\* parsed said that no run is active
AbandonTrueOnlyWhenOutOfGame ==
    (/\ results # <<>>
     /\ results[Len(results)] = [name |-> "abandon_command", passed |-> TRUE])
      => ~comm.in_game

\* C34: the cached last_error is that of the most recently processed line:
\* a line without an error clears the error an earlier line recorded, so
\* that after a ready answer without error last_error is None
LastErrorIsOfTheLastLine ==
    obs.processed
      => /\ coord.last_error = obs.line.error
         /\ obs.line.error = None => coord.last_error = None

\* a ready line without error was processed while the cache held the error
\* of an earlier line, and the cache holds no error now
ReadyLineClearedTheError ==
    /\ obs.processed
    /\ obs.before.last_error # None
    /\ obs.line.error = None /\ obs.line.ready_for_command
    /\ coord.game_is_ready /\ coord.last_error = None

\* C35: a processed line without a message leaves the cached last_message
\* as it was; a line that carries a message makes it exactly that message
MessageKeptUnlessLineCarriesOne ==
    obs.processed
      => /\ obs.line.message = None
              => coord.last_message = obs.before.last_message
         /\ obs.line.message # None
              => coord.last_message = obs.line.message

\* a line without a message was processed after a line with one, and the
\* cache still holds the earlier message
EarlierMessageSurvivedALine ==
    /\ obs.processed /\ obs.line.message = None
    /\ obs.before.last_message # None
    /\ coord.last_message = obs.before.last_message

\* C36: in GameCommunicator a line that fails to parse and a receive that
\* times out leave the cached game_is_ready, in_game and last_state as they
\* were; a parsed line sets all three from that line
CacheSetOnlyByParsedLines ==
    /\ obs.event \in {"parse error", "receive timed out"}
         => /\ comm.game_is_ready = obs.before.game_is_ready
            /\ comm.in_game = obs.before.in_game
            /\ comm.last_state = obs.before.last_state
    /\ obs.event = "parsed"
         => /\ comm.game_is_ready = obs.line.ready_for_command
            /\ comm.in_game = obs.line.in_game
            /\ comm.last_state
                 = [set |-> TRUE,
                    ready_for_command |-> obs.line.ready_for_command,
                    in_game |-> obs.line.in_game]

\* a line that is not JSON was received after a line from inside a run, and
\* the cache still holds that line
ParseErrorLeftTheCache ==
    /\ obs.event = "parse error"
    /\ comm.in_game /\ comm.last_state.set /\ comm.last_state.in_game
    /\ ~comm.game_is_ready

\* C37: get_communicator returns the singleton only after an
\* initialize_communicator that completed; while every call of
\* initialize_communicator failed, or none was made, it raises RuntimeError
GetCommunicatorOnlyAfterInitialization ==
    obs.event = "get_communicator"
      => /\ results[Len(results)] = "got" => obs.before.initialized
         /\ ~obs.before.initialized
              => results[Len(results)] = "not initialized"

\* get_communicator raises before any call of initialize_communicator
GetCommunicatorRaisedBeforeAnyInitialization ==
    /\ obs.event = "get_communicator"
    /\ steps = 0
    /\ results = <<"not initialized">>

====
